---- MODULE Spec2Model ----
(***************************************************************************)
(* A model of media-organizer-enhanced.py: the placement pipeline          *)
(* (process_file, process_batch, main, perform_final_sweep) over an        *)
(* abstract file system.                                                   *)
(*                                                                         *)
(* Strings that the code takes apart (paths, sub-second values) are        *)
(* sequences: a path is a sequence of tokens ("/" is a token, the          *)
(* sub-second marker "-ss" is a token, an extension is a token), a         *)
(* sub-second value is a sequence of one-character strings.  No token of   *)
(* the model contains "-ss" inside it, so the token operations below       *)
(* agree with Python's str.split / str.replace / `in` on the joined text.  *)
(***************************************************************************)
EXTENDS Integers, Sequences, FiniteSets, TLC

(***************************************************************************)
(* Bounds of the model.                                                    *)
(***************************************************************************)
\* injected I/O failures (copy, tag write, remove) per behaviour
MaxFaults == 1
\* signals (SIGINT/SIGTERM from outside) per behaviour
MaxSignals == 1
\* runs of main() on the same source tree
MaxRuns == 2

(***************************************************************************)
(* Program constants.                                                      *)
(***************************************************************************)
\* determine_target_directory: 200 * 1024, in KiB
SmallFileKiB == 200
KiB == 1024

MEDIA_TYPES ==
  [image |-> {".jpg", ".jpeg", ".png", ".gif", ".bmp", ".tiff", ".webp", ".heic",
              ".heif", ".raw", ".dng", ".cr2", ".nef", ".arw", ".ptx", ".svg",
              ".pdf", ".mpo"},
   video |-> {".mp4", ".mov", ".avi", ".mkv", ".wmv", ".flv", ".webm", ".m4v",
              ".mpg", ".mpeg", ".3gp"},
   audio |-> {".mp3", ".wav", ".aac", ".flac", ".m4a", ".ogg", ".aiff", ".alac",
              ".caf", ".amr", ".wmf"},
   document |-> {".pdf", ".doc", ".docx", ".xls", ".xlsx", ".ppt", ".pptx", ".txt",
                 ".rtf"},
   art |-> {".psd", ".ai", ".indd", ".cdr", ".dwg", ".eps"}]

\* dict order of MEDIA_TYPES: the first category holding the extension wins
MediaTypeOrder == <<"image", "video", "audio", "document", "art">>

suspicious_patterns ==
  {<<"9","6","4","2">>, <<"9","6","4","3">>, <<"9","6","4","4">>,
   <<"9","6","4","5">>, <<"0","9","6","4">>}

\* generate_filename_with_ss has its own, longer list
suspicious_patterns_name == suspicious_patterns \cup {<<"9","6","4">>}

subsec_fields == <<"SubSecTimeOriginal", "SubSecTime", "SubSecTimeDigitized">>

Digits == {"0","1","2","3","4","5","6","7","8","9"}

(***************************************************************************)
(* String helpers (character sequences and token sequences).               *)
(***************************************************************************)
RECURSIVE JoinChars(_)
JoinChars(cs) == IF cs = <<>> THEN "" ELSE Head(cs) \o JoinChars(Tail(cs))

\* sub in s, for sequences: Python's `pattern in subsec`
Contains(s, sub) ==
  \E i \in 0..(Len(s) - Len(sub)) : SubSeq(s, i + 1, i + Len(sub)) = sub

RECURSIVE LStrip(_, _)
LStrip(s, c) == IF s # <<>> /\ Head(s) = c THEN LStrip(Tail(s), c) ELSE s

RECURSIVE RStrip(_, _)
RStrip(s, c) ==
  IF s # <<>> /\ s[Len(s)] = c THEN RStrip(SubSeq(s, 1, Len(s) - 1), c) ELSE s

\* str.strip() (blanks are the only whitespace of the model)
Strip(s) == RStrip(LStrip(s, " "), " ")

\* str.isdigit(): non-empty and all digits
IsDigit(s) == s # <<>> /\ \A i \in 1..Len(s) : s[i] \in Digits

AllZero(s) == \A i \in 1..Len(s) : s[i] = "0"

\* int(s) > 0 for a digit string
IntPositive(s) == ~AllZero(s)

RECURSIVE ZFill(_, _)
ZFill(s, n) == IF Len(s) >= n THEN s ELSE ZFill(<<"0">> \o s, n)

Take(s, n) == SubSeq(s, 1, IF Len(s) < n THEN Len(s) ELSE n)

\* str.lower() on a token: the marker and the extension are the tokens with
\* letters whose case the code looks at
Lower(tok) ==
  IF tok \in {"-SS", "-Ss"} THEN "-ss" ELSE IF tok = ".JPG" THEN ".jpg" ELSE tok

Min(S) == CHOOSE x \in S : \A y \in S : x <= y

Pad2(n) == IF n < 10 THEN "0" \o ToString(n) ELSE ToString(n)

(***************************************************************************)
(* get_media_type                                                          *)
(***************************************************************************)
RECURSIVE FirstCategory(_, _)
FirstCategory(ext, order) ==
  IF order = <<>> THEN "unknown"
  ELSE IF ext \in MEDIA_TYPES[Head(order)] THEN Head(order)
  ELSE FirstCategory(ext, Tail(order))

\* ext is the file's extension already lower-cased (os.path.splitext(..)[1].lower())
get_media_type(ext) == FirstCategory(ext, MediaTypeOrder)

(***************************************************************************)
(* extract_subseconds_enhanced: metadata maps <<section, field>> to a      *)
(* character sequence; section "" is the root mapping.  The result is      *)
(* <<subseconds, needs_cleaning>>.                                         *)
(***************************************************************************)
\* a variant of the field test without the test of the suspicious patterns
SubsecOfValue_lenient(raw) ==
  LET subsec == Strip(raw)
      lz == subsec # <<>> /\ Head(subsec) = "0" /\ ~AllZero(subsec)
      stripped == IF lz THEN LStrip(subsec, "0") ELSE subsec
  IN  IF subsec = <<>> THEN [kind |-> "skip", val |-> <<>>]
      ELSE IF IsDigit(stripped) /\ IntPositive(stripped)
        THEN [kind |-> "accept", val |-> Take(ZFill(stripped, 6), 6)]
      ELSE [kind |-> "skip", val |-> <<>>]

\* one field value: "accept" with the value, "suspicious", or "skip"
SubsecOfValue(raw) ==
  LET subsec == Strip(raw)
      lz == subsec # <<>> /\ Head(subsec) = "0" /\ ~AllZero(subsec)
      stripped == IF lz THEN LStrip(subsec, "0") ELSE subsec
  IN  IF subsec = <<>> THEN [kind |-> "skip", val |-> <<>>]
      ELSE IF \E p \in suspicious_patterns : Contains(subsec, p)
        THEN [kind |-> "suspicious", val |-> <<>>]
      ELSE IF lz /\ stripped # <<>> /\ IsDigit(stripped)
        THEN [kind |-> "accept", val |-> Take(ZFill(stripped, 6), 6)]
      ELSE IF IsDigit(stripped) /\ IntPositive(stripped)
        THEN [kind |-> "accept", val |-> Take(ZFill(stripped, 6), 6)]
      ELSE [kind |-> "skip", val |-> <<>>]

RECURSIVE ScanSubsec(_, _, _, _)
\* scans `fields` of `section`; nc is needs_cleaning so far
ScanSubsec(metadata, section, fields, nc) ==
  IF fields = <<>> THEN [found |-> FALSE, val |-> <<>>, nc |-> nc]
  ELSE LET key == <<section, Head(fields)>>
       IN  IF key \notin DOMAIN metadata \/ metadata[key] = <<>>
             THEN ScanSubsec(metadata, section, Tail(fields), nc)
           ELSE LET r == SubsecOfValue(metadata[key])
                IN  IF r.kind = "accept"
                      THEN [found |-> TRUE, val |-> r.val, nc |-> FALSE]
                    ELSE ScanSubsec(metadata, section, Tail(fields),
                                    nc \/ r.kind = "suspicious")

extract_subseconds_enhanced(metadata) ==
  LET e == ScanSubsec(metadata, "ExifIFD", subsec_fields, FALSE)
  IN  IF e.found THEN <<e.val, FALSE>>
      ELSE LET r == ScanSubsec(metadata, "", subsec_fields, e.nc)
           IN  IF r.found THEN <<r.val, FALSE>> ELSE <<<<>>, r.nc>>

(***************************************************************************)
(* extract_date_from_metadata.  Texts (the file name, the date values of   *)
(* the metadata) are character sequences.  A result is                     *)
(* [kind |-> "date", date, aware] or [kind |-> "raise", exc]: an exception *)
(* that no handler of the function catches.  The metadata maps             *)
(* <<section, field>> to a value; a section that is no dict has the key    *)
(* <<section, "">>.                                                        *)
(***************************************************************************)
DigitOrder == <<"0","1","2","3","4","5","6","7","8","9">>

DigitVal(c) == (CHOOSE i \in 1..10 : DigitOrder[i] = c) - 1

RECURSIVE ToInt(_)
\* int(s) for a digit string
ToInt(s) == IF s = <<>> THEN 0 ELSE 10 * ToInt(SubSeq(s, 1, Len(s) - 1)) + DigitVal(s[Len(s)])

IsLeap(y) == (y % 4 = 0 /\ y % 100 # 0) \/ y % 400 = 0

DaysInMonth(y, m) ==
  IF m = 2 THEN (IF IsLeap(y) THEN 29 ELSE 28)
  ELSE IF m \in {4, 6, 9, 11} THEN 30 ELSE 31

Raise(exc) == [kind |-> "raise", exc |-> exc]

\* datetime(y, m, d, H, M, S): the value, or ValueError when out of range
MakeDatetime(y, m, d, H, M, S) ==
  IF /\ y \in 1..9999 /\ m \in 1..12
     /\ d >= 1 /\ d <= DaysInMonth(y, m)
     /\ H \in 0..23 /\ M \in 0..59 /\ S \in 0..59
    THEN [kind |-> "date", aware |-> FALSE,
          date |-> [year |-> y, month |-> m, day |-> d,
                    hour |-> H, minute |-> M, second |-> S]]
    ELSE Raise("ValueError")

\* a regular expression of digits and literals matches s at position i;
\* "d" in the shape stands for \d
ShapeAt(s, i, shape) ==
  /\ i + Len(shape) - 1 <= Len(s)
  /\ \A k \in 1..Len(shape) :
       IF shape[k] = "d" THEN s[i + k - 1] \in Digits ELSE s[i + k - 1] = shape[k]

\* re.search: the leftmost position where the shape matches, 0 if none
Search(s, shape) ==
  LET ps == {i \in 1..Len(s) : ShapeAt(s, i, shape)}
  IN  IF ps = {} THEN 0 ELSE Min(ps)

\* the digits of the match at position i, without the literals of the shape
MatchDigits(s, i, shape) ==
  LET ks == {k \in 1..Len(shape) : shape[k] = "d"}
      Nth[n \in 1..Cardinality(ks)] ==
        CHOOSE k \in ks : Cardinality({j \in ks : j < k}) = n - 1
  IN  [n \in 1..Cardinality(ks) |-> s[i + Nth[n] - 1]]

\* (\d{4})-(\d{2})-(\d{2})_(\d{2})-(\d{2})-(\d{2}) and
\* (\d{4})(\d{2})(\d{2})_(\d{2})(\d{2})(\d{2})
filename_patterns ==
  << <<"d","d","d","d","-","d","d","-","d","d","_","d","d","-","d","d","-","d","d">>,
     <<"d","d","d","d","d","d","d","d","_","d","d","d","d","d","d">> >>

\* the parser lambdas of filename_patterns: six groups of 4+2+2+2+2+2 digits
ParseDateTime14(ds) ==
  MakeDatetime(ToInt(SubSeq(ds, 1, 4)), ToInt(SubSeq(ds, 5, 6)), ToInt(SubSeq(ds, 7, 8)),
               ToInt(SubSeq(ds, 9, 10)), ToInt(SubSeq(ds, 11, 12)),
               ToInt(SubSeq(ds, 13, 14)))

\* an except clause that leaves ValueError out
FilenameHandler_narrow == {"IndexError"}

\* the exceptions the try blocks around the filename parsers catch
FilenameHandler == {"ValueError", "IndexError"}

RECURSIVE FilenameStage(_, _)
\* lines 301-307: "none" when no pattern gives a date
FilenameStage(filename, patterns) ==
  IF patterns = <<>> THEN [kind |-> "none"]
  ELSE LET i == Search(filename, Head(patterns))
           r == ParseDateTime14(MatchDigits(filename, i, Head(patterns)))
       IN  IF i = 0 THEN FilenameStage(filename, Tail(patterns))
           ELSE IF r.kind = "date" THEN r
           ELSE IF r.exc \in FilenameHandler THEN FilenameStage(filename, Tail(patterns))
           ELSE r

date_fields ==
  <<"DateTimeOriginal", "CreateDate", "DateTimeCreated", "MediaCreateDate",
    "TrackCreateDate", "FileModifyDate">>

date_formats ==
  << <<"%Y", ":", "%m", ":", "%d", " ", "%H", ":", "%M", ":", "%S">>,
     <<"%Y", "-", "%m", "-", "%d", " ", "%H", ":", "%M", ":", "%S">>,
     <<"%Y", ":", "%m", ":", "%d", " ", "%H", "-", "%M", "-", "%S">>,
     <<"%Y", "-", "%m", "-", "%d", " ", "%H", "-", "%M", "-", "%S">>,
     <<"%Y", "-", "%m", "-", "%d", "T", "%H", ":", "%M", ":", "%S">>,
     <<"%Y", ":", "%m", ":", "%d">> >>

tdrc_formats == << <<"%Y">>, <<"%Y", "-", "%m", "-", "%d">>, <<"%Y", "-", "%m">> >>

exif_sections == <<"ExifIFD", "IFD0", "XMP-xmp", "Composite", "">>

Directives == {"%Y", "%m", "%d", "%H", "%M", "%S"}

\* the values strptime starts from
StrptimeDefaults ==
  [x \in Directives |-> IF x = "%Y" THEN 1900 ELSE IF x \in {"%m", "%d"} THEN 1 ELSE 0]

\* the two-digit and the one-digit alternatives of a directive's expression
TwoDigitRange(x) ==
  CASE x = "%m" -> 1..12 [] x = "%d" -> 1..31 [] x = "%H" -> 0..23
    [] x = "%M" -> 0..59 [] x = "%S" -> 0..61

OneDigitRange(x) == IF x \in {"%m", "%d"} THEN 1..9 ELSE 0..9

NoMatch == [ok |-> FALSE, rest |-> <<>>, vals |-> StrptimeDefaults]

RECURSIVE MatchFmt(_, _, _)
\* the match of strptime's regular expression for fmt at the start of s
MatchFmt(fmt, s, vals) ==
  IF fmt = <<>> THEN [ok |-> TRUE, rest |-> s, vals |-> vals]
  ELSE
    LET x == Head(fmt)
        two == IF /\ Len(s) >= 2 /\ s[1] \in Digits /\ s[2] \in Digits
                  /\ ToInt(SubSeq(s, 1, 2)) \in TwoDigitRange(x)
                 THEN MatchFmt(Tail(fmt), SubSeq(s, 3, Len(s)),
                               [vals EXCEPT ![x] = ToInt(SubSeq(s, 1, 2))])
                 ELSE NoMatch
        one == IF /\ Len(s) >= 1 /\ s[1] \in Digits
                  /\ DigitVal(s[1]) \in OneDigitRange(x)
                 THEN MatchFmt(Tail(fmt), Tail(s), [vals EXCEPT ![x] = DigitVal(s[1])])
                 ELSE NoMatch
        blank == IF /\ x = "%d" /\ Len(s) >= 2 /\ s[1] = " " /\ s[2] \in Digits
                    /\ DigitVal(s[2]) \in 1..9
                   THEN MatchFmt(Tail(fmt), SubSeq(s, 3, Len(s)),
                                 [vals EXCEPT ![x] = DigitVal(s[2])])
                   ELSE NoMatch
    IN  IF x = "%Y"
          THEN IF Len(s) >= 4 /\ \A k \in 1..4 : s[k] \in Digits
                 THEN MatchFmt(Tail(fmt), SubSeq(s, 5, Len(s)),
                               [vals EXCEPT ![x] = ToInt(SubSeq(s, 1, 4))])
                 ELSE NoMatch
        ELSE IF x \in Directives
          THEN IF two.ok THEN two ELSE IF one.ok THEN one ELSE blank
        ELSE IF x = " "
          \* whitespace of the format is \s+
          THEN IF s # <<>> /\ Head(s) = " "
                 THEN MatchFmt(Tail(fmt), LStrip(s, " "), vals)
                 ELSE NoMatch
        ELSE IF s # <<>> /\ Head(s) = x
          THEN MatchFmt(Tail(fmt), Tail(s), vals)
        ELSE NoMatch

\* datetime.strptime(date_str, fmt): ValueError when the text does not match,
\* when text remains, or when the values are no date
Strptime(date_str, fmt) ==
  LET m == MatchFmt(fmt, date_str, StrptimeDefaults)
  IN  IF ~m.ok \/ m.rest # <<>> THEN Raise("ValueError")
      ELSE MakeDatetime(m.vals["%Y"], m.vals["%m"], m.vals["%d"],
                        m.vals["%H"], m.vals["%M"], m.vals["%S"])

\* re.sub(r'[-+]\d{2}:\d{2}$', '', date_str)
StripOffset(s) ==
  LET n == Len(s)
  IN  IF /\ n >= 6 /\ s[n - 5] \in {"-", "+"}
         /\ ShapeAt(s, n - 4, <<"d", "d", ":", "d", "d">>)
        THEN SubSeq(s, 1, n - 6) ELSE s

RECURSIVE TryFormats(_, _)
\* the first format that parses; "none" when every one raises ValueError
TryFormats(date_str, formats) ==
  IF formats = <<>> THEN [kind |-> "none"]
  ELSE LET r == Strptime(date_str, Head(formats))
       IN  IF r.kind = "date" THEN r
           ELSE IF r.exc = "ValueError" THEN TryFormats(date_str, Tail(formats))
           ELSE r

RECURSIVE FieldScan(_, _, _)
FieldScan(metadata, section, fields) ==
  IF fields = <<>> THEN [kind |-> "none"]
  ELSE LET key == <<section, Head(fields)>>
           r == TryFormats(StripOffset(metadata[key]), date_formats)
       IN  IF key \notin DOMAIN metadata THEN FieldScan(metadata, section, Tail(fields))
           ELSE IF r.kind = "none" THEN FieldScan(metadata, section, Tail(fields))
           ELSE r

RECURSIVE MetadataStage(_, _)
\* lines 323-338: the sections in order, the date fields in order
MetadataStage(metadata, sections) ==
  IF sections = <<>> THEN [kind |-> "none"]
  ELSE LET section == Head(sections)
           r == FieldScan(metadata, section, date_fields)
       IN  IF <<section, "">> \in DOMAIN metadata
             THEN MetadataStage(metadata, Tail(sections))
           ELSE IF r.kind = "none" THEN MetadataStage(metadata, Tail(sections))
           ELSE r

\* lines 340-349: the TDRC tag; every exception is caught
TdrcStage(metadata) ==
  IF <<"", "TDRC">> \notin DOMAIN metadata THEN [kind |-> "none"]
  ELSE TryFormats(metadata[<<"", "TDRC">>], tdrc_formats)

\* (\d{4})(\d{2})(\d{2}) and (\d{2})(\d{2})(\d{2})
filename_date_patterns ==
  << <<"d","d","d","d","d","d","d","d">>, <<"d","d","d","d","d","d">> >>

\* the parser lambdas of filename_date_patterns
ParseDateOnly(ds) ==
  IF Len(ds) = 8
    THEN MakeDatetime(ToInt(SubSeq(ds, 1, 4)), ToInt(SubSeq(ds, 5, 6)),
                      ToInt(SubSeq(ds, 7, 8)), 0, 0, 0)
    ELSE MakeDatetime(2000 + ToInt(SubSeq(ds, 1, 2)), ToInt(SubSeq(ds, 3, 4)),
                      ToInt(SubSeq(ds, 5, 6)), 0, 0, 0)

\* (\d{2})[-_]?(\d{2})[-_]?(\d{2}): the shapes it can match, the separators
\* taken where they stand
TimeShapes ==
  {<<"d","d">> \o a \o <<"d","d">> \o b \o <<"d","d">> :
     a \in {<<>>, <<"-">>, <<"_">>}, b \in {<<>>, <<"-">>, <<"_">>}}

\* re.search of the time expression: [at, digits], at = 0 if none
TimeSearch(s) ==
  LET hits == {i \in 1..Len(s) : \E sh \in TimeShapes : ShapeAt(s, i, sh)}
      at == Min(hits)
      sh == CHOOSE x \in TimeShapes : ShapeAt(s, at, x)
  IN  IF hits = {} THEN [at |-> 0, digits |-> <<>>]
      ELSE [at |-> at, digits |-> MatchDigits(s, at, sh)]

RECURSIVE FilenameDateStage(_, _)
\* lines 351-369
FilenameDateStage(filename, patterns) ==
  IF patterns = <<>> THEN [kind |-> "none"]
  ELSE LET i == Search(filename, Head(patterns))
           date_only == ParseDateOnly(MatchDigits(filename, i, Head(patterns)))
           time_match == TimeSearch(filename)
           t == time_match.digits
           r == IF date_only.kind # "date" THEN date_only
                ELSE IF time_match.at = 0 THEN date_only
                ELSE MakeDatetime(date_only.date.year, date_only.date.month,
                                  date_only.date.day, ToInt(SubSeq(t, 1, 2)),
                                  ToInt(SubSeq(t, 3, 4)), ToInt(SubSeq(t, 5, 6)))
       IN  IF i = 0 THEN FilenameDateStage(filename, Tail(patterns))
           ELSE IF r.kind = "date" THEN r
           ELSE IF r.exc \in FilenameHandler THEN FilenameDateStage(filename, Tail(patterns))
           ELSE r

\* datetime.fromtimestamp(os.path.getmtime(file_path), tz=timezone.utc);
\* file_path is [name, exists, mtime]: the base name, whether the file is
\* there, and its modification time
get_fallback_date(file_path) ==
  IF ~file_path.exists THEN Raise("FileNotFoundError")
  ELSE [kind |-> "date", aware |-> TRUE, date |-> file_path.mtime]

\* a resolver that asks the metadata before the file name
extract_date_from_metadata_metafirst(metadata, file_path) ==
  LET filename == file_path.name
      r1 == FilenameStage(filename, filename_patterns)
      r2 == MetadataStage(metadata, exif_sections)
      r3 == TdrcStage(metadata)
      r4 == FilenameDateStage(filename, filename_date_patterns)
  IN  IF r2.kind # "none" THEN r2
      ELSE IF r1.kind # "none" THEN r1
      ELSE IF r3.kind # "none" THEN r3
      ELSE IF r4.kind # "none" THEN r4
      ELSE get_fallback_date(file_path)

extract_date_from_metadata(metadata, file_path) ==
  LET filename == file_path.name
      r1 == FilenameStage(filename, filename_patterns)
      r2 == MetadataStage(metadata, exif_sections)
      r3 == TdrcStage(metadata)
      r4 == FilenameDateStage(filename, filename_date_patterns)
  IN  IF r1.kind # "none" THEN r1
      ELSE IF r2.kind # "none" THEN r2
      ELSE IF r3.kind # "none" THEN r3
      ELSE IF r4.kind # "none" THEN r4
      ELSE get_fallback_date(file_path)

(***************************************************************************)
(* generate_filename_with_ss: the name as tokens.                          *)
(***************************************************************************)
\* date.strftime('%Y-%m-%d_%H-%M-%S')
DateStr(date) ==
  ToString(date.year) \o "-" \o Pad2(date.month) \o "-" \o Pad2(date.day) \o "_"
    \o Pad2(date.hour) \o "-" \o Pad2(date.minute) \o "-" \o Pad2(date.second)

ExtTokens(ext) == IF ext = "" THEN <<>> ELSE <<ext>>

generate_filename_with_ss(date, subseconds, original_extension) ==
  IF /\ subseconds # <<>>
     /\ IsDigit(subseconds)
     /\ IntPositive(subseconds)
     /\ ~\E p \in suspicious_patterns_name : Contains(subseconds, p)
    THEN <<DateStr(date), "-ss", JoinChars(subseconds)>> \o ExtTokens(original_extension)
    ELSE <<DateStr(date)>> \o ExtTokens(original_extension)

(***************************************************************************)
(* determine_target_directory                                              *)
(***************************************************************************)
media_folder_map(media_type) ==
  CASE media_type = "image" -> "Photos"
    [] media_type = "video" -> "Videos"
    [] media_type = "audio" -> "Audio"
    [] media_type = "document" -> "Documents"
    [] media_type = "art" -> "Art"
    [] OTHER -> "Other"

\* a year that is not taken from the date
YearStr_fixed(date) == "2024"

\* date.strftime('%Y')
YearStr(date) == ToString(date.year)

RECURSIVE PathJoin(_, _)
\* os.path.join(root, part1, part2, ...)
PathJoin(root, parts) ==
  IF parts = <<>> THEN root
  ELSE PathJoin(root \o <<"/", Head(parts)>>, Tail(parts))

\* a determine_target_directory that forgets the error tier
determine_target_directory_flat(destination_root, media_type, date, file_size, is_error) ==
  LET year == YearStr(date)
      media_folder == media_folder_map(media_type)
  IN  IF file_size > 0 /\ file_size <= SmallFileKiB * KiB
        THEN PathJoin(destination_root, <<"small_files", media_folder, year>>)
        ELSE PathJoin(destination_root, <<media_folder, year>>)

determine_target_directory(destination_root, media_type, date, file_size, is_error) ==
  LET year == YearStr(date)
      media_folder == media_folder_map(media_type)
      small == file_size > 0 /\ file_size <= SmallFileKiB * KiB
  IN  IF is_error
        THEN IF small
               THEN PathJoin(destination_root, <<"Error", "small_files", media_folder, year>>)
               ELSE PathJoin(destination_root, <<"Error", media_folder, year>>)
      ELSE IF small
        THEN PathJoin(destination_root, <<"small_files", media_folder, year>>)
      ELSE PathJoin(destination_root, <<media_folder, year>>)

(***************************************************************************)
(* resolve_collision.  `existing` is the set of paths for which            *)
(* os.path.exists is true.  The result is [ok, path]; ok = FALSE is the    *)
(* IndexError of base.split("-ss")[1].                                     *)
(***************************************************************************)
\* the extension os.path.splitext finds: the last token, if it is one
IsExtToken(tok) ==
  tok \in UNION {MEDIA_TYPES[c] : c \in DOMAIN MEDIA_TYPES} \cup {".xyz", ".JPG"}

SplitExt(path) ==
  IF path # <<>> /\ IsExtToken(path[Len(path)])
    THEN <<SubSeq(path, 1, Len(path) - 1), <<path[Len(path)]>>>>
    ELSE <<path, <<>>>>

\* positions of the (lower-case) marker in a token sequence
MarkerPositions(base) == {i \in 1..Len(base) : base[i] = "-ss"}

\* base.split("-ss")[1]: the text between the first and the second marker
SsPart(base) ==
  LET ps == MarkerPositions(base)
      first == Min(ps)
      rest == {p \in ps : p > first}
      stop == IF rest = {} THEN Len(base) + 1 ELSE Min(rest)
  IN  SubSeq(base, first + 1, stop - 1)

RECURSIVE RemoveAll(_, _)
\* s.replace(pat, ""): every non-overlapping occurrence, left to right
RemoveAll(s, pat) ==
  IF Len(s) < Len(pat) \/ pat = <<>> THEN s
  ELSE IF SubSeq(s, 1, Len(pat)) = pat
    THEN RemoveAll(SubSeq(s, Len(pat) + 1, Len(s)), pat)
  ELSE <<Head(s)>> \o RemoveAll(Tail(s), pat)

CounterTok(counter) == "_" \o ToString(counter)

\* a numbering that does not look whether its candidate exists
FirstFree_once(pre, post, counter, existing) == pre \o <<CounterTok(counter)>> \o post

RECURSIVE FirstFree(_, _, _, _)
\* the while loop: the first counter whose candidate does not exist
FirstFree(pre, post, counter, existing) ==
  IF (pre \o <<CounterTok(counter)>> \o post) \in existing
    THEN FirstFree(pre, post, counter + 1, existing)
    ELSE pre \o <<CounterTok(counter)>> \o post

resolve_collision(target_path, existing) ==
  LET se == SplitExt(target_path)
      base == se[1]
      extension == se[2]
  IN  IF \E i \in 1..Len(base) : Lower(base[i]) = "-ss"
        THEN IF MarkerPositions(base) = {}
               THEN [ok |-> FALSE, path |-> <<>>]
             ELSE LET ss_part == SsPart(base)
                      nbase == RemoveAll(base, <<"-ss">> \o ss_part)
                  IN  [ok |-> TRUE,
                       path |-> FirstFree(nbase, <<"-ss">> \o ss_part \o extension,
                                          2, existing)]
      ELSE [ok |-> TRUE, path |-> FirstFree(base, extension, 2, existing)]

(***************************************************************************)
(* batch_files                                                             *)
(***************************************************************************)
RECURSIVE Slices(_, _, _, _, _)
\* the for loop of batch_files, from batch number i (0-based) and offset start
Slices(files, avg, rem, i, n) ==
  IF i >= n THEN <<>>
  ELSE LET batch_size == avg + (IF i < rem THEN 1 ELSE 0)
       IN  <<SubSeq(files, 1, batch_size)>>
             \o Slices(SubSeq(files, batch_size + 1, Len(files)), avg, rem, i + 1, n)

\* a batch_files that forgets the remainder
batch_files_short(files, num_batches) ==
  IF files = <<>> THEN <<>>
  ELSE Slices(files, Len(files) \div num_batches, 0, 0, num_batches)

batch_files(files, num_batches) ==
  IF files = <<>> THEN <<>>
  ELSE LET avg_batch_size == Len(files) \div num_batches
           remainder == Len(files) % num_batches
       IN  IF avg_batch_size = 0 THEN <<files>>
           ELSE Slices(files, avg_batch_size, remainder, 0, num_batches)

(***************************************************************************)
(* optimize_core_usage: (num_workers, batch_size) from the physical cores. *)
(***************************************************************************)
NumWorkersOf(physical_cores) ==
  IF physical_cores > 8 THEN physical_cores - 1 ELSE physical_cores

BatchSizeOf(num_workers) ==
  IF num_workers >= 12 THEN num_workers * 8
  ELSE IF num_workers >= 8 THEN num_workers * 6
  ELSE IF num_workers >= 4 THEN num_workers * 4
  ELSE num_workers * 3

\* lines 754-759: files_per_worker from the detected memory
FilesPerWorkerOf(total_memory_gb) ==
  IF total_memory_gb >= 32 THEN 50
  ELSE IF total_memory_gb >= 16 THEN 30
  ELSE 15

\* the triple optimize_core_usage returns, from the physical cores and the
\* memory it detects
optimize_core_usage(physical_cores, total_memory_gb) ==
  LET num_workers == NumWorkersOf(physical_cores)
  IN  <<num_workers, FilesPerWorkerOf(total_memory_gb), BatchSizeOf(num_workers)>>

(***************************************************************************)
(* The files of the bounded source tree.  Each has the extension of its    *)
(* path, the metadata mapping the external tool reports for it, the        *)
(* timestamp extract_date_from_metadata resolves for it, and its size.     *)
(***************************************************************************)
D1 == [year |-> 2024, month |-> 1, day |-> 1, hour |-> 10, minute |-> 0, second |-> 0]

SS500000 == <<"5","0","0","0","0","0">>

FileTable ==
  [f \in {"a.jpg", "b.jpg", "c.xyz", "d.jpg"} |->
     CASE f = "a.jpg" ->
            [ext |-> ".jpg", date |-> D1, size |-> 300000,
             metadata |-> (<<"ExifIFD", "SubSecTimeOriginal">> :> SS500000)]
       [] f = "b.jpg" ->
            [ext |-> ".jpg", date |-> D1, size |-> 300000,
             metadata |-> (<<"ExifIFD", "SubSecTimeOriginal">> :> SS500000)]
       [] f = "c.xyz" ->
            [ext |-> ".xyz", date |-> D1, size |-> 1000,
             metadata |-> (<<"", "SubSecTime">> :> <<"0","0","0","9","6","4">>)]
       [] f = "d.jpg" ->
            [ext |-> ".jpg", date |-> D1, size |-> 300000,
             metadata |-> (<<"ExifIFD", "SubSecTime">> :> <<" ">>)]]

\* the order in which os.scandir lists the files of the tree
ScanOrder == <<"a.jpg", "b.jpg", "c.xyz", "d.jpg">>

\* the files main() finds in the source tree at the start of the first run
PipelineFiles == {"a.jpg", "b.jpg", "c.xyz"}

\* the files a directly called process_batch may be handed
BatchFiles == {"a.jpg", "c.xyz", "d.jpg"}

Workers == {"w1", "w2"}
WorkerOrder == <<"w1", "w2">>
Procs == Workers \cup {"main"}

\* destination roots the user may pick
Roots == {<<"dst">>, <<"pics", "-ss", "d">>}

(***************************************************************************)
(* State.                                                                  *)
(***************************************************************************)
VARIABLES
  root,                  \* destination_dir, as the user picked it
  cores,                 \* physical cores optimize_core_usage detects
  pre,                   \* whether the destination held a file before the first run
  src,                   \* the files present in the source tree
  dst,                   \* the destination tree: path -> whose content it holds
  dirs,                  \* the directories that exist under the destination
  EXIT_FLAG,             \* the global stop flag, one per process
  mpc,                   \* where main() is
  run,                   \* which run of main() this is
  sweep,                 \* is_error_sweep of the batches of the current pool
  pool,                  \* "none", "open" or "terminated"
  batches,               \* batch_args: the batches of the current pool
  next_task,             \* the next batch the pool hands to a free worker
  outq,                  \* batch results returned, in order of completion
  collected,             \* batch results main has taken from imap_unordered
  wpc, wbatch, wpos, wres, wtarget, wread,   \* each worker: position and locals
  shared_counter,        \* manager.Value('i', 0)
  shared_error_files,    \* manager.list()
  error_files,           \* the global error_files of the main process
  total_files,           \* the global total_files
  final_total,           \* total of the sweep, as perform_final_sweep returns it
  initial_success_count,
  final_success_count,
  report,                \* what main() reports at its end
  faults, signals,       \* injected failures and signals so far
  copies,                \* history: every copy made: file, path, run, sweep, fresh
  metafail,              \* history: tag writes that failed: file, run, sweep
  removed,               \* history: sources removed: file, run
  handled,               \* history: every outcome process_file returned
  stop_ok,               \* history: files placed when the stop flag of main was set
  call,                  \* a function called on its own: its name and arguments
  ret                    \* what that call returned

vars ==
  <<root, cores, pre, src, dst, dirs, EXIT_FLAG, mpc, run, sweep, pool, batches,
    next_task, outq, collected, wpc, wbatch, wpos, wres, wtarget, wread,
    shared_counter, shared_error_files, error_files, total_files, final_total,
    initial_success_count, final_success_count, report, faults, signals,
    copies, metafail, removed, handled, stop_ok, call, ret>>

fsVars == <<src, dst, dirs>>
mainVars ==
  <<mpc, run, error_files, total_files, final_total, initial_success_count,
    final_success_count, report, collected, shared_error_files>>
poolVars == <<sweep, pool, batches, next_task>>
workerVars == <<wpc, wbatch, wpos, wres, wtarget, wread>>
histVars == <<copies, metafail, removed>>
envVars == <<root, cores, pre, call, ret>>

(***************************************************************************)
(* What process_file computes for one file (lines 524-570).                *)
(***************************************************************************)
MediaTypeOfFile(f) == get_media_type(Lower(FileTable[f].ext))

SubsecondsOf(f) == extract_subseconds_enhanced(FileTable[f].metadata)[1]

NeedsCleaning(f) == extract_subseconds_enhanced(FileTable[f].metadata)[2]

NewFilename(f) ==
  generate_filename_with_ss(FileTable[f].date, SubsecondsOf(f), FileTable[f].ext)

TargetDirectory(dest, f, is_error_sweep) ==
  determine_target_directory(dest, MediaTypeOfFile(f), FileTable[f].date,
                             FileTable[f].size, is_error_sweep)

\* os.path.join(target_directory, new_filename)
TargetPath(dest, f, is_error_sweep) ==
  TargetDirectory(dest, f, is_error_sweep) \o <<"/">> \o NewFilename(f)

\* os.path.exists: files and directories
Existing == DOMAIN dst \cup dirs

\* a process_file that copies to the proposed path without looking
PathResolved_unchecked(target_path, existing) == [ok |-> TRUE, path |-> target_path]

\* lines 572-573
PathResolved(target_path, existing) ==
  IF target_path \in existing
    THEN resolve_collision(target_path, existing)
    ELSE [ok |-> TRUE, path |-> target_path]

\* os.path.dirname
DirOf(path) ==
  LET slashes == {i \in 1..Len(path) : path[i] = "/"}
  IN  IF slashes = {} THEN <<>>
      ELSE SubSeq(path, 1, (CHOOSE i \in slashes : \A j \in slashes : j <= i) - 1)

\* lines 513-600 for one file, without the I/O: args is [file,
\* destination_root, is_error_sweep], file is [name, ext, metadata, mtime,
\* size]; `existing` are the paths for which os.path.exists is true.  The
\* result has ok = TRUE when the file is copied to `path`.
process_file(args, existing) ==
  LET file == args.file
      file_path == [name |-> file.name, exists |-> TRUE, mtime |-> file.mtime]
      media_type == get_media_type(Lower(file.ext))
      none == [ok |-> FALSE, kind |-> "error", path |-> <<>>, new_filename |-> <<>>,
               target_directory |-> <<>>, target_path |-> <<>>,
               subseconds |-> <<>>, needs_cleaning |-> FALSE, tags |-> "none"]
      \* os.makedirs, os.path.exists, resolve_collision and shutil.copy2, then
      \* lines 580-583: the sub-second tags are cleared (needs_cleaning) or set
      \* to subseconds, when there are any
      Place(new_filename, target_directory, ss) ==
        LET target_path == target_directory \o <<"/">> \o new_filename
            Copy(resolved) ==
              [ok |-> resolved.ok /\ DirOf(resolved.path) \in existing \cup {target_directory},
               kind |-> IF resolved.ok /\ DirOf(resolved.path) \in existing \cup {target_directory}
                          THEN "processed" ELSE "error",
               path |-> resolved.path,
               new_filename |-> new_filename, target_directory |-> target_directory,
               target_path |-> target_path,
               subseconds |-> ss[1], needs_cleaning |-> ss[2],
               tags |-> IF ~(resolved.ok /\ DirOf(resolved.path) \in existing \cup {target_directory})
                          THEN "none"
                        ELSE IF ss[2] THEN "cleared"
                        ELSE IF ss[1] # <<>> THEN JoinChars(ss[1])
                        ELSE "unchanged"]
        IN  Copy(PathResolved(target_path, existing \cup {target_directory}))
      \* the name and the directory of a file whose date and subseconds are known
      Name(resolved_date, ss) ==
        IF resolved_date.kind # "date" THEN none
        ELSE Place(generate_filename_with_ss(resolved_date.date, ss[1], file.ext),
                   determine_target_directory(args.destination_root, media_type,
                                              resolved_date.date, file.size,
                                              args.is_error_sweep),
                   ss)
  IN  IF media_type = "unknown" /\ ~args.is_error_sweep
        THEN [none EXCEPT !.kind = "unsupported"]
      ELSE Name(extract_date_from_metadata(file.metadata, file_path),
                extract_subseconds_enhanced(file.metadata))

(***************************************************************************)
(* get_files_to_process: the files of the tree in scan order.              *)
(***************************************************************************)
RECURSIVE ScanTree(_, _, _)
ScanTree(order, tree, include_unknown) ==
  IF order = <<>> THEN <<>>
  ELSE LET f == Head(order)
           rest == ScanTree(Tail(order), tree, include_unknown)
       IN  IF f \in tree /\ (include_unknown \/ MediaTypeOfFile(f) # "unknown")
             THEN <<f>> \o rest
             ELSE rest

\* a scan that answers from the tree as it was before the first run
get_files_to_process_stale(tree, include_unknown) ==
  ScanTree(ScanOrder, PipelineFiles, include_unknown)

get_files_to_process(tree, include_unknown) == ScanTree(ScanOrder, tree, include_unknown)

\* an aggregation that forgets the unsupported-type exception
IsReportedError_all(rec) == ~rec.ok

\* lines 1016-1018: which outcome records reach the reported error list
IsReportedError(rec) == ~rec.ok /\ rec.kind # "unsupported"

CountOk(results) == Cardinality({i \in 1..Len(results) : results[i].ok})

ReportedErrors(results) ==
  {results[i] : i \in {j \in 1..Len(results) : IsReportedError(results[j])}}

ActiveWorkers == {WorkerOrder[i] : i \in 1..NumWorkersOf(cores)}

\* hasattr(shared_counter, 'get_lock'): a manager.Value proxy has no get_lock
HasGetLock == FALSE

(***************************************************************************)
(* Workers: process_batch and process_file.                                *)
(***************************************************************************)
\* lines 662-670: worker_init and process_batch set the flag in a pool process
WORKER_PROCESS(p) == p \in Workers

\* lines 433-435 and 508-510: the except branch of clean_subsecond_metadata
\* and of update_metadata_date prints its message only outside a worker
PrintsMetadataError(p) == ~WORKER_PROCESS(p)

CurFile(w) == batches[wbatch[w]][wpos[w]]

Rec(ok, kind, f) == [ok |-> ok, kind |-> kind, file |-> f]

\* process_file returns rec; process_batch appends it to results (line 679)
Returns(w, rec) ==
  /\ wres' = [wres EXCEPT ![w] = Append(@, rec)]
  /\ wtarget' = [wtarget EXCEPT ![w] = <<>>]
  /\ wpc' = [wpc EXCEPT ![w] = "count"]
  /\ handled' = handled \cup {[ok |-> rec.ok, kind |-> rec.kind, file |-> rec.file,
                                 run |-> run, sweep |-> sweep]}

\* the files process_file has reported as placed in the main pass of this run
PlacedOk == Cardinality({h \in handled : h.ok /\ ~h.sweep /\ h.run = run})

\* a pool worker takes the next task from the queue
WTake(w) ==
  /\ w \in ActiveWorkers
  /\ pool = "open"
  /\ wpc[w] = "idle"
  /\ next_task <= Len(batches)
  /\ wbatch' = [wbatch EXCEPT ![w] = next_task]
  /\ wpos' = [wpos EXCEPT ![w] = 1]
  /\ wres' = [wres EXCEPT ![w] = <<>>]
  /\ wpc' = [wpc EXCEPT ![w] = "loop"]
  /\ next_task' = next_task + 1
  /\ UNCHANGED <<fsVars, EXIT_FLAG, mainVars, sweep, pool, batches, outq, wtarget,
                 wread, shared_counter, faults, signals, histVars, handled,
                 stop_ok, envVars>>

\* lines 673-675 and 701: the head of the for loop, and the return
WLoop(w) ==
  /\ wpc[w] = "loop"
  /\ IF wpos[w] > Len(batches[wbatch[w]]) \/ EXIT_FLAG[w]
       THEN /\ outq' = Append(outq, [batch |-> wbatch[w], results |-> wres[w]])
            /\ wpc' = [wpc EXCEPT ![w] = "idle"]
            /\ wbatch' = [wbatch EXCEPT ![w] = 0]
            /\ wpos' = [wpos EXCEPT ![w] = 0]
            /\ wres' = [wres EXCEPT ![w] = <<>>]
       ELSE /\ wpc' = [wpc EXCEPT ![w] = "begin"]
            /\ UNCHANGED <<outq, wbatch, wpos, wres>>
  /\ UNCHANGED <<fsVars, EXIT_FLAG, mainVars, poolVars, wtarget,
                 wread, shared_counter, faults, signals, histVars, handled,
                 stop_ok, envVars>>

\* lines 519-573: from the stop check to the resolved target path
WBegin(w) ==
  /\ wpc[w] = "begin"
  /\ LET f == CurFile(w)
         target_directory == TargetDirectory(root, f, sweep)
         resolved == PathResolved(TargetPath(root, f, sweep),
                                  Existing \cup {target_directory})
     IN  IF EXIT_FLAG[w]
           THEN Returns(w, Rec(FALSE, "interrupted", f)) /\ UNCHANGED dirs
         ELSE IF MediaTypeOfFile(f) = "unknown" /\ ~sweep
           THEN Returns(w, Rec(FALSE, "unsupported", f)) /\ UNCHANGED dirs
         ELSE IF f \notin src
           \* os.path.getmtime of get_fallback_date raises
           THEN Returns(w, Rec(FALSE, "error", f)) /\ UNCHANGED dirs
         ELSE IF ~resolved.ok
           THEN /\ Returns(w, Rec(FALSE, "error", f))
                /\ dirs' = dirs \cup {target_directory}
         ELSE /\ dirs' = dirs \cup {target_directory}
              /\ wtarget' = [wtarget EXCEPT ![w] = resolved.path]
              /\ wpc' = [wpc EXCEPT ![w] = "copy"]
              /\ UNCHANGED <<wres, handled>>
  /\ UNCHANGED <<src, dst, EXIT_FLAG, mainVars, poolVars, outq, wbatch, wpos, wread,
                 shared_counter, faults, signals, histVars, stop_ok, envVars>>

\* a process_file that swallows the failure of the copy and goes on
WCopy_swallows(w) ==
  /\ wpc[w] = "copy"
  /\ LET f == CurFile(w)
         possible == f \in src /\ DirOf(wtarget[w]) \in dirs
     IN  \/ /\ possible
            /\ dst' = (wtarget[w] :> f) @@ dst
            /\ copies' = copies \cup {[file |-> f, path |-> wtarget[w], run |-> run,
                                       sweep |-> sweep,
                                       fresh |-> wtarget[w] \notin DOMAIN dst]}
            /\ UNCHANGED faults
         \/ /\ ~possible \/ faults < MaxFaults
            /\ faults' = IF possible THEN faults + 1 ELSE faults
            /\ UNCHANGED <<dst, copies>>
  /\ wpc' = [wpc EXCEPT ![w] = "meta"]
  /\ UNCHANGED <<src, dirs, EXIT_FLAG, mainVars, poolVars, outq, wbatch, wpos, wres,
                 wtarget, wread, shared_counter, signals, metafail, removed, handled,
                 stop_ok, envVars>>

\* lines 575-578: shutil.copy2 to the target path, or its failure
WCopy(w) ==
  /\ wpc[w] = "copy"
  /\ LET f == CurFile(w)
         possible == f \in src /\ DirOf(wtarget[w]) \in dirs
     IN  \/ /\ possible
            /\ dst' = (wtarget[w] :> f) @@ dst
            /\ copies' = copies \cup {[file |-> f, path |-> wtarget[w], run |-> run,
                                       sweep |-> sweep,
                                       fresh |-> wtarget[w] \notin DOMAIN dst]}
            /\ wpc' = [wpc EXCEPT ![w] = "meta"]
            /\ UNCHANGED <<wres, wtarget, faults, handled>>
         \/ /\ ~possible \/ faults < MaxFaults
            /\ faults' = IF possible THEN faults + 1 ELSE faults
            /\ Returns(w, Rec(FALSE, "error", f))
            /\ UNCHANGED <<dst, copies>>
  /\ UNCHANGED <<src, dirs, EXIT_FLAG, mainVars, poolVars, outq, wbatch, wpos,
                 wread, shared_counter, signals, metafail, removed,
                 stop_ok, envVars>>

\* lines 580-583: clean_subsecond_metadata or update_metadata_date on the
\* destination; both swallow their failure and return False, which is ignored
WMeta(w) ==
  /\ wpc[w] = "meta"
  /\ LET f == CurFile(w)
     IN  /\ \/ UNCHANGED <<faults, metafail>>
            \/ /\ faults < MaxFaults
               /\ faults' = faults + 1
               /\ metafail' = metafail \cup {[file |-> f, run |-> run, sweep |-> sweep]}
         /\ IF sweep
              THEN Returns(w, Rec(TRUE, "processed", f))
              ELSE /\ wpc' = [wpc EXCEPT ![w] = "remove"]
                   /\ UNCHANGED <<wres, wtarget, handled>>
  /\ UNCHANGED <<fsVars, EXIT_FLAG, mainVars, poolVars, outq, wbatch, wpos,
                 wread, shared_counter, signals, copies, removed, stop_ok, envVars>>

\* lines 585-600: os.remove of the source (not in a sweep), then success
WRemove(w) ==
  /\ wpc[w] = "remove"
  /\ LET f == CurFile(w)
     IN  /\ \/ /\ f \in src
               /\ src' = src \ {f}
               /\ removed' = removed \cup {[file |-> f, run |-> run]}
               /\ UNCHANGED faults
            \/ /\ f \notin src \/ faults < MaxFaults
               /\ faults' = IF f \in src THEN faults + 1 ELSE faults
               /\ UNCHANGED <<src, removed>>
         /\ Returns(w, Rec(TRUE, "processed", f))
  /\ UNCHANGED <<dst, dirs, EXIT_FLAG, mainVars, poolVars, outq, wbatch, wpos,
                 wread, shared_counter, signals, copies, metafail,
                 stop_ok, envVars>>

\* lines 681-688: shared_counter.value += 1, a get() then a set() on the proxy,
\* under the lock only if the counter has one
WRead(w) ==
  /\ wpc[w] = "count"
  /\ IF HasGetLock
       THEN /\ shared_counter' = shared_counter + 1
            /\ wpos' = [wpos EXCEPT ![w] = @ + 1]
            /\ wpc' = [wpc EXCEPT ![w] = "loop"]
            /\ UNCHANGED wread
       ELSE /\ wread' = [wread EXCEPT ![w] = shared_counter]
            /\ wpc' = [wpc EXCEPT ![w] = "write"]
            /\ UNCHANGED <<shared_counter, wpos>>
  /\ UNCHANGED <<fsVars, EXIT_FLAG, mainVars, poolVars, outq, wbatch, wres, wtarget,
                 faults, signals, histVars, handled, stop_ok, envVars>>

\* a process_batch that leaves its loop after a failed file
WWrite_aborts(w) ==
  /\ wpc[w] = "write"
  /\ shared_counter' = wread[w] + 1
  /\ wread' = [wread EXCEPT ![w] = 0]
  /\ wpos' = [wpos EXCEPT ![w] =
                IF wres[w][Len(wres[w])].kind = "error"
                  THEN Len(batches[wbatch[w]]) + 1 ELSE @ + 1]
  /\ wpc' = [wpc EXCEPT ![w] = "loop"]
  /\ UNCHANGED <<fsVars, EXIT_FLAG, mainVars, poolVars, outq, wbatch, wres, wtarget,
                 faults, signals, histVars, handled, stop_ok, envVars>>

WWrite(w) ==
  /\ wpc[w] = "write"
  /\ shared_counter' = wread[w] + 1
  /\ wread' = [wread EXCEPT ![w] = 0]
  /\ wpos' = [wpos EXCEPT ![w] = @ + 1]
  /\ wpc' = [wpc EXCEPT ![w] = "loop"]
  /\ UNCHANGED <<fsVars, EXIT_FLAG, mainVars, poolVars, outq, wbatch, wres, wtarget,
                 faults, signals, histVars, handled, stop_ok, envVars>>

\* signal_handler in process p (SIGINT or SIGTERM from outside)
Signal(p) ==
  /\ signals < MaxSignals
  /\ ~EXIT_FLAG[p]
  /\ IF p = "main" THEN mpc \in {"scan", "collect", "terminate", "join", "cleanup"}
                   ELSE p \in ActiveWorkers /\ pool = "open"
  /\ signals' = signals + 1
  /\ EXIT_FLAG' = [EXIT_FLAG EXCEPT ![p] = TRUE]
  /\ stop_ok' = IF p = "main" THEN PlacedOk ELSE stop_ok
  /\ UNCHANGED <<fsVars, mainVars, poolVars, outq, workerVars, shared_counter,
                 faults, histVars, handled, envVars>>

(***************************************************************************)
(* main() and perform_final_sweep.                                         *)
(***************************************************************************)
MinOf(a, b) == IF a < b THEN a ELSE b

\* lines 968-1006 (and 802-840): the batches, the shared counter, the pool.
\* A worker process starts with the module's EXIT_FLAG = False (spawn) or
\* with the value main has at that moment (fork).
StartPool(files, is_error_sweep) ==
  LET num_workers == NumWorkersOf(cores)
      batch_size == BatchSizeOf(num_workers)
  IN  /\ batches' = batch_files(files, MinOf(batch_size, Len(files)))
      /\ sweep' = is_error_sweep
      /\ pool' = "open"
      /\ next_task' = 1
      /\ outq' = <<>>
      /\ collected' = 0
      /\ shared_counter' = 0
      /\ shared_error_files' = {}
      /\ \E method \in {"fork", "spawn"} :
           EXIT_FLAG' = [p \in Procs |->
                           IF p = "main" \/ method = "fork" THEN EXIT_FLAG["main"]
                           ELSE FALSE]

\* lines 872-877
MainStart ==
  /\ mpc = "start"
  /\ EXIT_FLAG' = [EXIT_FLAG EXCEPT !["main"] = FALSE]
  /\ total_files' = 0
  /\ error_files' = {}
  /\ mpc' = "scan"
  /\ UNCHANGED <<fsVars, run, final_total, initial_success_count, final_success_count,
                 report, collected, shared_error_files, poolVars, outq, workerVars,
                 shared_counter, faults, signals, histVars, handled, stop_ok,
                 envVars>>

\* lines 943-975: the scan of the source tree, then the main pass is started
MainScan ==
  /\ mpc = "scan"
  /\ LET files == get_files_to_process(src, FALSE)
     IN  /\ total_files' = Len(files)
         /\ initial_success_count' = 0
         /\ IF files = <<>>
              THEN /\ mpc' = "decide"
                   /\ UNCHANGED <<poolVars, outq, collected, shared_counter,
                                  shared_error_files, EXIT_FLAG>>
              ELSE /\ mpc' = "collect"
                   /\ StartPool(files, FALSE)
  /\ UNCHANGED <<fsVars, run, error_files, final_total, final_success_count, report,
                 workerVars, faults, signals, histVars, handled, stop_ok, envVars>>

\* lines 1009-1020 (and 843-854): one turn of the loop over imap_unordered
MainCollect ==
  /\ mpc = "collect"
  /\ outq # <<>>
  /\ outq' = Tail(outq)
  /\ LET batch_result == Head(outq).results
     IN  IF EXIT_FLAG["main"]
           THEN /\ mpc' = "terminate"
                /\ UNCHANGED <<initial_success_count, final_success_count,
                               shared_error_files, collected>>
           ELSE /\ initial_success_count' =
                     IF sweep THEN initial_success_count
                     ELSE initial_success_count + CountOk(batch_result)
                /\ final_success_count' =
                     IF sweep THEN final_success_count + CountOk(batch_result)
                     ELSE final_success_count
                /\ shared_error_files' =
                     shared_error_files \cup ReportedErrors(batch_result)
                /\ collected' = collected + 1
                /\ mpc' = IF collected + 1 = Len(batches) THEN "terminate" ELSE "collect"
  /\ UNCHANGED <<fsVars, EXIT_FLAG, run, error_files, total_files, final_total, report,
                 poolVars, workerVars, shared_counter, faults, signals, histVars,
                 handled, stop_ok, envVars>>

\* pool.terminate() (line 1011, or the end of the with block): the task queue
\* is drained and every worker is sent SIGTERM, which signal_handler catches
MainTerminate ==
  /\ mpc = "terminate"
  /\ pool' = "terminated"
  /\ next_task' = Len(batches) + 1
  /\ EXIT_FLAG' = [p \in Procs |-> IF p \in ActiveWorkers THEN TRUE ELSE EXIT_FLAG[p]]
  /\ mpc' = "join"
  /\ UNCHANGED <<fsVars, run, error_files, total_files, final_total,
                 initial_success_count, final_success_count, report, collected,
                 shared_error_files, sweep, batches, outq, workerVars, shared_counter,
                 faults, signals, histVars, handled, stop_ok, envVars>>

\* a pool exit that does not join its workers
MainJoin_nowait ==
  /\ mpc = "join"
  /\ error_files' = shared_error_files
  /\ mpc' = IF sweep THEN "summary" ELSE "cleanup"
  /\ UNCHANGED <<fsVars, EXIT_FLAG, run, total_files, final_total,
                 initial_success_count, final_success_count, report,
                 outq, collected, shared_counter, shared_error_files,
                 poolVars, workerVars,
                 faults, signals, histVars, handled, stop_ok, envVars>>

\* the pool joins its workers; then line 1025 (859): error_files = list(shared_error_files)
MainJoin ==
  /\ mpc = "join"
  /\ \A w \in Workers : wpc[w] = "idle"
  /\ error_files' = shared_error_files
  /\ mpc' = IF sweep THEN "summary" ELSE "cleanup"
  /\ outq' = <<>>
  /\ batches' = <<>>
  /\ next_task' = 1
  /\ collected' = 0
  /\ shared_counter' = 0
  /\ shared_error_files' = {}
  /\ UNCHANGED <<fsVars, EXIT_FLAG, run, total_files, final_total,
                 initial_success_count, final_success_count, report,
                 sweep, pool, workerVars,
                 faults, signals, histVars, handled, stop_ok, envVars>>

\* lines 1035-1036: remove_empty_directories(source_dir)
MainCleanup ==
  /\ mpc = "cleanup"
  /\ mpc' = "decide"
  /\ UNCHANGED <<fsVars, EXIT_FLAG, run, error_files, total_files, final_total,
                 initial_success_count, final_success_count, report, collected,
                 shared_error_files, poolVars, outq, workerVars, shared_counter,
                 faults, signals, histVars, handled, stop_ok, envVars>>

\* a main that starts the final sweep whatever the stop flag says
MainDecide_always ==
  /\ mpc = "decide"
  /\ IF TRUE
       THEN LET sweep_files == get_files_to_process(src, TRUE)
            IN  /\ error_files' = {}
                /\ total_files' = Len(sweep_files)
                /\ final_total' = Len(sweep_files)
                /\ final_success_count' = 0
                /\ report' = report
                /\ IF sweep_files = <<>>
                     THEN /\ mpc' = "summary"
                          /\ UNCHANGED <<poolVars, outq, collected, shared_counter,
                                         shared_error_files, EXIT_FLAG>>
                     ELSE /\ mpc' = "collect"
                          /\ StartPool(sweep_files, TRUE)
       ELSE /\ report' = [kind |-> "partial", succeeded |-> initial_success_count,
                          found |-> total_files, errors |-> {}]
            /\ mpc' = "done"
            /\ UNCHANGED <<error_files, total_files, final_total, final_success_count,
                           poolVars, outq, collected, shared_counter,
                           shared_error_files, EXIT_FLAG>>
  /\ UNCHANGED <<fsVars, run, initial_success_count, workerVars, faults, signals,
                 histVars, handled, stop_ok, envVars>>

\* line 1038: the final sweep (lines 777-809) unless the stop flag is set,
\* else the partial report (lines 1088-1098)
MainDecide ==
  /\ mpc = "decide"
  /\ IF ~EXIT_FLAG["main"]
       THEN LET sweep_files == get_files_to_process(src, TRUE)
            IN  /\ error_files' = {}
                /\ total_files' = Len(sweep_files)
                /\ final_total' = Len(sweep_files)
                /\ final_success_count' = 0
                /\ report' = report
                /\ IF sweep_files = <<>>
                     THEN /\ mpc' = "summary"
                          /\ UNCHANGED <<poolVars, outq, collected, shared_counter,
                                         shared_error_files, EXIT_FLAG>>
                     ELSE /\ mpc' = "collect"
                          /\ StartPool(sweep_files, TRUE)
       ELSE /\ report' = [kind |-> "partial", succeeded |-> initial_success_count,
                          found |-> total_files, errors |-> {}]
            /\ mpc' = "done"
            /\ UNCHANGED <<error_files, total_files, final_total, final_success_count,
                           poolVars, outq, collected, shared_counter,
                           shared_error_files, EXIT_FLAG>>
  /\ UNCHANGED <<fsVars, run, initial_success_count, workerVars, faults, signals,
                 histVars, handled, stop_ok, envVars>>

\* lines 1048-1087: the processing summary
MainSummary ==
  /\ mpc = "summary"
  /\ report' = [kind |-> "summary",
                succeeded |-> initial_success_count + final_success_count,
                found |-> total_files + final_total,
                errors |-> error_files]
  /\ mpc' = "done"
  /\ UNCHANGED <<fsVars, EXIT_FLAG, run, error_files, total_files, final_total,
                 initial_success_count, final_success_count, collected,
                 shared_error_files, poolVars, outq, workerVars, shared_counter,
                 faults, signals, histVars, handled, stop_ok, envVars>>

\* the program is run again on the same source tree and destination
MainRerun ==
  /\ mpc = "done"
  /\ run < MaxRuns
  /\ run' = run + 1
  /\ mpc' = "start"
  /\ report' = [kind |-> "none", succeeded |-> 0, found |-> 0, errors |-> {}]
  /\ pool' = "none"
  /\ batches' = <<>>
  /\ next_task' = 1
  /\ outq' = <<>>
  /\ collected' = 0
  /\ shared_counter' = 0
  /\ shared_error_files' = {}
  /\ stop_ok' = 0
  /\ initial_success_count' = 0
  /\ final_success_count' = 0
  /\ final_total' = 0
  /\ EXIT_FLAG' = [p \in Procs |-> FALSE]
  /\ UNCHANGED <<fsVars, error_files, total_files, sweep, workerVars, faults, signals,
                 histVars, handled, envVars>>

(***************************************************************************)
(* Specifications.                                                         *)
(***************************************************************************)
\* the destination before the first run: empty, or holding one older file
\* at the path the first image will be given
Dst0(dest, occupied) ==
  IF occupied THEN (TargetPath(dest, "a.jpg", FALSE) :> "old") ELSE <<>>

Dirs0(dest, occupied) ==
  IF occupied THEN {dest, TargetDirectory(dest, "a.jpg", FALSE)} ELSE {dest}

InitCommon ==
  /\ root \in Roots
  /\ pre \in BOOLEAN
  /\ dst = Dst0(root, pre)
  /\ dirs = Dirs0(root, pre)
  /\ EXIT_FLAG = [p \in Procs |-> FALSE]
  /\ run = 1
  /\ next_task = 1
  /\ outq = <<>>
  /\ collected = 0
  /\ wpc = [w \in Workers |-> "idle"]
  /\ wbatch = [w \in Workers |-> 0]
  /\ wpos = [w \in Workers |-> 0]
  /\ wres = [w \in Workers |-> <<>>]
  /\ wtarget = [w \in Workers |-> <<>>]
  /\ wread = [w \in Workers |-> 0]
  /\ shared_counter = 0
  /\ shared_error_files = {}
  /\ error_files = {}
  /\ total_files = 0
  /\ final_total = 0
  /\ initial_success_count = 0
  /\ final_success_count = 0
  /\ report = [kind |-> "none", succeeded |-> 0, found |-> 0, errors |-> {}]
  /\ faults = 0
  /\ signals = 0
  /\ copies = {}
  /\ metafail = {}
  /\ removed = {}
  /\ handled = {}
  /\ stop_ok = 0

NoCall == [fn |-> "none"]

Pending == [kind |-> "pending"]

\* main() is started on a source tree
Init ==
  /\ InitCommon
  /\ call = NoCall
  /\ ret = Pending
  /\ cores \in {1, 2}
  /\ src = PipelineFiles
  /\ mpc = "start"
  /\ sweep = FALSE
  /\ pool = "none"
  /\ batches = <<>>

Next ==
  \/ MainStart
  \/ MainScan
  \/ MainCollect
  \/ MainTerminate
  \/ MainJoin
  \/ MainCleanup
  \/ MainDecide
  \/ MainSummary
  \/ MainRerun
  \/ \E w \in Workers : WTake(w)
  \/ \E w \in Workers : WLoop(w)
  \/ \E w \in Workers : WBegin(w)
  \/ \E w \in Workers : WCopy(w)
  \/ \E w \in Workers : WMeta(w)
  \/ \E w \in Workers : WRemove(w)
  \/ \E w \in Workers : WRead(w)
  \/ \E w \in Workers : WWrite(w)
  \/ \E p \in Procs : Signal(p)

Spec == Init /\ [][Next]_vars

(***************************************************************************)
(* process_batch called directly on one batch, with either value of the    *)
(* sweep flag, by one worker.                                              *)
(***************************************************************************)
\* files per directly called batch
MaxBatchLen == 3

\* files that go through process_file, one after the other
MaxPlaced == 3

\* files of a list handed to batch_files, and physical cores of the machine
MaxFiles == 20
MaxCores == 6

\* a scan lists every path once
BatchesOfLen(n) ==
  {b \in [1..n -> BatchFiles] : \A i, j \in 1..n : b[i] = b[j] => i = j}

InitBatch ==
  /\ InitCommon
  /\ call = NoCall
  /\ ret = Pending
  /\ cores = 1
  /\ src = BatchFiles
  /\ mpc = "direct"
  /\ sweep \in BOOLEAN
  /\ pool = "open"
  /\ \E n \in 1..MaxBatchLen : \E b \in BatchesOfLen(n) : batches = <<b>>

NextBatch ==
  \/ \E w \in Workers : WTake(w)
  \/ \E w \in Workers : WLoop(w)
  \/ \E w \in Workers : WBegin(w)
  \/ \E w \in Workers : WCopy(w)
  \/ \E w \in Workers : WMeta(w)
  \/ \E w \in Workers : WRemove(w)
  \/ \E w \in Workers : WRead(w)
  \/ \E w \in Workers : WWrite(w)
  \/ \E w \in Workers : Signal(w)

SpecBatch == InitBatch /\ [][NextBatch]_vars

(***************************************************************************)
(* Functions called on their own: one call with arguments drawn from a     *)
(* bounded set, and the step that runs it.                                 *)
(***************************************************************************)
\* everything of the pipeline at rest
InitAtRest ==
  /\ InitCommon
  /\ root = <<"dst">>
  /\ ~pre
  /\ cores = 1
  /\ src = {}
  /\ mpc = "off"
  /\ sweep = FALSE
  /\ pool = "none"
  /\ batches = <<>>
  /\ ret = Pending

Returned(fn) == call.fn = fn /\ ret.kind # "pending"

\* file names the resolver is called with
DateFilenames ==
  {<<"I","M","G","_","0","0","0","1",".","J","P","G">>,
   <<"2","0","2","4","-","0","1","-","0","1","_","1","0","-","0","0","-","0","0",".","j","p","g">>,
   <<"2","0","2","4","-","1","3","-","0","1","_","1","0","-","0","0","-","0","0",".","j","p","g">>,
   <<"2","0","2","4","0","1","0","1","_","1","0","0","0","0","0",".","m","p","4">>,
   <<"2","0","2","4","1","3","0","1","_","1","0","0","0","0","0",".","m","p","4">>,
   <<"1","9","9","9","1","2","3","1",".","j","p","g">>,
   <<"s","c","a","n","_","2","4","0","1","0","1",".","p","n","g">>,
   <<"1","0","0","5","3","0",".","j","p","g">>,
   <<"x",".","j","p","g">>}

\* metadata mappings the resolver is called with
DateMetadata ==
  {<<>>,
   (<<"ExifIFD", "DateTimeOriginal">> :> <<"2","0","2","4",":","0","1",":","0","1"," ","1","0",":","0","0",":","0","0">>) @@ (<<"ExifIFD", "SubSecTimeOriginal">> :> <<"5","0","0","0","0","0">>),
   (<<"ExifIFD", "DateTimeOriginal">> :> <<"0","0","0","0",":","0","0",":","0","0"," ","0","0",":","0","0",":","0","0">>) @@ (<<"IFD0", "CreateDate">> :> <<"2","0","2","3","-","0","6","-","1","5"," ","0","8",":","3","0",":","0","0">>),
   (<<"XMP-xmp", "CreateDate">> :> <<"2","0","2","4","-","0","1","-","0","1","T","1","0",":","0","0",":","0","0","+","0","2",":","0","0">>),
   (<<"", "FileModifyDate">> :> <<"2","0","2","4",":","0","2",":","3","0"," ","1","0",":","0","0",":","0","0">>),
   (<<"Composite", "">> :> <<"n">>) @@ (<<"Composite", "CreateDate">> :> <<"2","0","2","4",":","0","1",":","0","1"," ","1","0",":","0","0",":","0","0">>) @@ (<<"", "CreateDate">> :> <<"g","a","r","b","a","g","e">>),
   (<<"", "TDRC">> :> <<"2","0","2","4">>),
   (<<"", "TDRC">> :> <<"2","0","2","4","-","1","3">>),
   (<<"IFD0", "DateTimeOriginal">> :> <<"2","0","2","4",":","0","1",":","0","1">>),
   (<<"", "CreateDate">> :> <<"2","0","2","4",":","1",":","5"," ","7",":","0","8",":","0","9">>)}

D2 == [year |-> 2019, month |-> 7, day |-> 4, hour |-> 23, minute |-> 59, second |-> 58]

InitDate ==
  /\ InitAtRest
  /\ \E n \in DateFilenames, md \in DateMetadata, e \in BOOLEAN, t \in {D1, D2} :
       call = [fn |-> "extract_date_from_metadata", metadata |-> md,
               file_path |-> [name |-> n, exists |-> e, mtime |-> t]]

CallDate ==
  /\ call.fn = "extract_date_from_metadata"
  /\ ret.kind = "pending"
  /\ ret' = extract_date_from_metadata(call.metadata, call.file_path)
  /\ UNCHANGED <<fsVars, EXIT_FLAG, mainVars, poolVars, outq, workerVars,
                 shared_counter, faults, signals, histVars, handled, stop_ok,
                 root, cores, pre, call>>

NextDate == CallDate

SpecDate == InitDate /\ [][NextDate]_vars

\* the files process_file is called with, one after the other
PlaceFiles ==
  {[name |-> <<"I","M","G","_","0","0","0","1",".","J","P","G">>, ext |-> ".JPG",
    metadata |-> (<<"ExifIFD", "DateTimeOriginal">> :> <<"2","0","2","4",":","0","1",":","0","1"," ","1","0",":","0","0",":","0","0">>) @@ (<<"ExifIFD", "SubSecTimeOriginal">> :> <<"5","0","0","0","0","0">>),
    mtime |-> D1, size |-> 300000],
   [name |-> <<"x",".","j","p","g">>, ext |-> ".jpg",
    metadata |-> (<<"ExifIFD", "DateTimeOriginal">> :> <<"2","0","2","4",":","0","1",":","0","1"," ","1","0",":","0","0",":","0","0">>),
    mtime |-> D2, size |-> 300000],
   [name |-> <<"1","9","9","9","1","2","3","1",".","j","p","g">>, ext |-> ".jpg",
    metadata |-> <<>>,
    mtime |-> D2, size |-> 1000],
   [name |-> <<"n","o","t","e","s",".","x","y","z">>, ext |-> ".xyz",
    metadata |-> (<<"IFD0", "CreateDate">> :> <<"2","0","2","3","-","0","6","-","1","5"," ","0","8",":","3","0",":","0","0">>),
    mtime |-> D1, size |-> 0],
   [name |-> <<"2","0","2","2","0","1","0","1","_","1","0","0","0","0","0",".","m","p","4">>, ext |-> ".mp4",
    metadata |-> (<<"", "SubSecTime">> :> <<"0","0","0","9","6","4">>),
    mtime |-> D1, size |-> 204800],
   [name |-> <<"2","0","2","2","0","1","0","1","_","1","0","0","0","0","0",".","m","p","4">>, ext |-> ".mp4",
    metadata |-> (<<"ExifIFD", "SubSecTimeOriginal">> :> <<"9","6","4">>),
    mtime |-> D1, size |-> 204801]}

\* a destination starts with its root directory only
InitPlace ==
  /\ InitAtRest
  /\ \E d \in Roots, sw \in BOOLEAN :
       call = [fn |-> "process_file", destination_root |-> d, is_error_sweep |-> sw,
               done |-> <<>>, existing |-> {d}]

\* one more file goes through process_file; a file copied adds its path and
\* its directory to the destination
CallPlace ==
  /\ call.fn = "process_file"
  /\ Len(call.done) < MaxPlaced
  /\ \E file \in PlaceFiles :
       \E r \in {process_file([file |-> file, destination_root |-> call.destination_root,
                               is_error_sweep |-> call.is_error_sweep], call.existing)} :
           /\ ret' = [kind |-> "returned", file |-> file, result |-> r,
                      before |-> call.existing]
           /\ call' = [call EXCEPT
                         !.done = Append(@, [file |-> file, result |-> r]),
                         !.existing = IF r.target_directory = <<>> THEN @
                                      ELSE IF r.ok THEN @ \cup {r.target_directory, r.path}
                                      ELSE @ \cup {r.target_directory}]
  /\ UNCHANGED <<fsVars, EXIT_FLAG, mainVars, poolVars, outq, workerVars,
                 shared_counter, faults, signals, histVars, handled, stop_ok,
                 root, cores, pre>>

NextPlace == CallPlace

SpecPlace == InitPlace /\ [][NextPlace]_vars

\* main lines 972-975 (and 807): batch_files(files, min(batch_size, total_files))
\* for a list of distinct files and the batch size of the machine
\* the memory, in GB, the machine is detected with: one value of each tier
MemoryGB == {8, 16, 64}

\* lines 959 and 972: the batches main schedules for a list of n files
ScheduledBatches(n, physical_cores, total_memory_gb) ==
  LET files == [i \in 1..n |-> i]
      batch_size == optimize_core_usage(physical_cores, total_memory_gb)[3]
  IN  batch_files(files, MinOf(batch_size, n))

InitSplit ==
  /\ InitAtRest
  /\ \E n \in 1..MaxFiles, c \in 1..MaxCores, m \in MemoryGB :
       call = [fn |-> "batch_files", files |-> [i \in 1..n |-> i],
               physical_cores |-> c, total_memory_gb |-> m,
               batch_size |-> optimize_core_usage(c, m)[3]]

CallSplit ==
  /\ call.fn = "batch_files"
  /\ ret.kind = "pending"
  /\ ret' = [kind |-> "returned",
             batches |-> batch_files(call.files,
                                     MinOf(call.batch_size, Len(call.files)))]
  /\ UNCHANGED <<fsVars, EXIT_FLAG, mainVars, poolVars, outq, workerVars,
                 shared_counter, faults, signals, histVars, handled, stop_ok,
                 root, cores, pre, call>>

NextSplit == CallSplit

SpecSplit == InitSplit /\ [][NextSplit]_vars

(***************************************************************************)
(* extract_subseconds_enhanced called on its own.                          *)
(***************************************************************************)
\* the sub-second fields of the input mappings, in the order of the scan
SubsecKeys ==
  <<<<"ExifIFD", "SubSecTimeOriginal">>, <<"ExifIFD", "SubSecTimeDigitized">>,
    <<"", "SubSecTimeOriginal">>, <<"", "SubSecTime">>>>

Absent == <<"absent">>

\* the values a sub-second field is given
SubsecValues ==
  {<<"0","0","0","9","6","4">>, <<"9","6","4">>, <<" ">>,
   <<"5","0","0","0","0","0">>, <<"0">>, <<"0","1","2">>,
   <<"9","6","4","3"," ">>}

InitSubsec ==
  /\ InitAtRest
  /\ \E f \in [1..Len(SubsecKeys) -> SubsecValues \cup {Absent}], isdict \in BOOLEAN :
       LET keys == {SubsecKeys[i] : i \in {i \in 1..Len(SubsecKeys) :
                       /\ f[i] # Absent
                       /\ (SubsecKeys[i][1] = "ExifIFD" => isdict)}}
           idx(k) == CHOOSE i \in 1..Len(SubsecKeys) : SubsecKeys[i] = k
           fields == [k \in keys |-> f[idx(k)]]
       IN  call = [fn |-> "extract_subseconds_enhanced",
                   metadata |-> IF isdict THEN fields
                                ELSE fields @@ (<<"ExifIFD", "">> :> <<"n">>)]

CallSubsec ==
  /\ call.fn = "extract_subseconds_enhanced"
  /\ ret.kind = "pending"
  /\ LET r == extract_subseconds_enhanced(call.metadata)
     IN  ret' = [kind |-> "returned", subseconds |-> r[1], needs_cleaning |-> r[2]]
  /\ UNCHANGED <<fsVars, EXIT_FLAG, mainVars, poolVars, outq, workerVars,
                 shared_counter, faults, signals, histVars, handled, stop_ok,
                 root, cores, pre, call>>

NextSubsec == CallSubsec

SpecSubsec == InitSubsec /\ [][NextSubsec]_vars


(***************************************************************************)
(* Properties.                                                             *)
(***************************************************************************)
\* C1: collision-freedom under parallel workers: no two distinct source
\* files are ever copied to the same final destination path.
C1_NoTwoSourcesOnePath ==
  \A c1, c2 \in copies : c1.file # c2.file => c1.path # c2.path

\* C2: with a single worker, every path process_file copies to did not exist
\* immediately before the copy, and every file that was already in the
\* destination tree (older, or placed earlier) still has its content.
C2_SingleWorkerNeverOverwrites ==
  cores = 1 =>
    /\ \A c \in copies : c.fresh /\ c.path \in DOMAIN dst /\ dst[c.path] = c.file
    /\ \A p \in DOMAIN Dst0(root, pre) : p \in DOMAIN dst /\ dst[p] = Dst0(root, pre)[p]

\* C2 witness: one worker has placed two files of the same canonical name,
\* the second under a resolved (suffixed) path, beside an older file.
C2_Witness ==
  /\ cores = 1
  /\ pre
  /\ \E c1, c2 \in copies :
       /\ c1.file # c2.file
       /\ c1.path # TargetPath(root, c1.file, c1.sweep)
       /\ c2.path # TargetPath(root, c2.file, c2.sweep)

\* the outcome process_file has just returned in worker w (before the counter)
JustReturned(w) == wpc[w] = "count"

LastRec(w) == wres[w][Len(wres[w])]

\* C3, as claimed: a source file is removed only after both the copy and the
\* metadata rewrite on the destination have succeeded; if either fails, the
\* source file is still present afterwards.
C3_RemovedOnlyAfterCopyAndRewrite ==
  /\ \A r \in removed :
       /\ \E c \in copies : c.file = r.file /\ c.run = r.run /\ ~c.sweep
       /\ [file |-> r.file, run |-> r.run, sweep |-> FALSE] \notin metafail
  /\ \A w \in Workers :
       (/\ JustReturned(w)
        /\ \/ LastRec(w).kind = "error"
           \/ [file |-> CurFile(w), run |-> run, sweep |-> sweep] \in metafail)
         => CurFile(w) \in src

\* C3, amended: a source file is removed only after its copy has succeeded and
\* the metadata rewrite on the copy has returned, with or without success (it
\* is still present while process_file is before its removal step); if the
\* copy fails, the source file is still present afterwards.
C3_RemovedOnlyAfterCopy ==
  /\ \A r \in removed :
       \E c \in copies : /\ c.file = r.file /\ c.run = r.run /\ ~c.sweep
                         /\ c.path \in DOMAIN dst
  /\ \A w \in Workers :
       /\ wpc[w] \in {"begin", "copy", "meta"} => CurFile(w) \in src
       /\ (JustReturned(w) /\ LastRec(w).kind = "error") => CurFile(w) \in src

\* C3 witness: a source has been removed although the metadata rewrite on its
\* copy failed.
C3_Witness ==
  \E r \in removed : [file |-> r.file, run |-> r.run, sweep |-> FALSE] \in metafail

\* C4, as claimed: when the whole pipeline runs twice (no run is cancelled),
\* the second run never writes a second copy of a file the first run placed,
\* and it processes only files that errored in the first run (no file is new
\* in this source tree).
C4_RerunNeverCopiesAgain ==
  signals = 0 =>
    /\ \A c1, c2 \in copies : ~(c1.file = c2.file /\ c1.run = 1 /\ c2.run = 2)
    /\ \A h2 \in handled :
         h2.run = 2 =>
           \E h1 \in handled : h1.file = h2.file /\ h1.run = 1 /\ ~h1.ok

\* C4, amended: a later run never processes, and so never copies again, a file
\* whose source an earlier run removed; only files still in the source tree
\* (among them those the sweep placed, whose sources are kept) are processed.
C4_RemovedNeverProcessedAgain ==
  /\ \A h \in handled : \A r \in removed : h.file = r.file => h.run <= r.run
  /\ \A c \in copies : \A r \in removed : c.file = r.file => c.run <= r.run

\* C4 witness: the second run has ended after the first removed a source, and
\* it has copied again a file the first run's sweep had placed.
C4_Witness ==
  /\ signals = 0
  /\ run = 2
  /\ mpc = "done"
  /\ \E r \in removed : r.run = 1
  /\ \E c1, c2 \in copies : c1.file = c2.file /\ c1.run = 1 /\ c1.sweep /\ c2.run = 2

\* C5: within one run of main, each source file is copied into the
\* destination tree at most once, also when its removal fails.
C5_CopiedOncePerRun ==
  \A c1, c2 \in copies : (c1.file = c2.file /\ c1.run = c2.run) => c1 = c2

C7_UnknownSkipped ==
  \A h \in handled :
    (MediaTypeOfFile(h.file) = "unknown" /\ ~h.sweep) =>
      /\ ~h.ok
      /\ h.kind \in {"unsupported", "interrupted"}
      /\ h.kind = "unsupported" => ~IsReportedError(h)
      /\ h.file \in src
      /\ \E i \in 1..Len(get_files_to_process(src, TRUE)) :
           get_files_to_process(src, TRUE)[i] = h.file
      /\ ~\E c \in copies : c.file = h.file
      /\ ~\E r \in removed : r.file = h.file

\* C7 witness: process_file has returned the unsupported-type outcome.
C7_Witness ==
  \E h \in handled : h.kind = "unsupported" /\ ~h.sweep

\* C8: when the stop flag is set during the main pass, every file placed
\* before the stop is in the succeeded count of the partial report.
C8_PartialReportCountsPlaced ==
  report.kind = "partial" => report.succeeded >= stop_ok

\* C9: once all batches of a pass have completed without cancellation, the
\* shared counter equals the number of files of the pass.
C9_CounterCountsEveryFile ==
  (/\ mpc = "terminate"
   /\ collected = Len(batches)
   /\ \A p \in Procs : ~EXIT_FLAG[p])
    => shared_counter = total_files

\* the path lies under <destination_root>/Error
InErrorTier(path) ==
  /\ Len(path) >= Len(root) + 2
  /\ SubSeq(path, 1, Len(root) + 2) = root \o <<"/", "Error">>

\* C10: every file placed while the sweep flag is set, unknown types
\* included, goes inside the Error tier, and no file placed with the flag
\* clear does.
C10_SweepRouting ==
  \A c \in copies : c.sweep <=> InErrorTier(c.path)

\* C10 witness: a file of unknown type was placed by the sweep and another
\* file by the main pass.
C10_Witness ==
  /\ \E c \in copies : c.sweep /\ MediaTypeOfFile(c.file) = "unknown"
  /\ \E c \in copies : ~c.sweep

\* C11, as claimed: the sweep's re-scan of the source tree (main reaching the
\* decision to sweep) always comes directly after the empty-directory cleanup.
C11_RescanAlwaysAfterCleanup ==
  [][(mpc' = "decide" /\ mpc # "decide") => mpc = "cleanup"]_vars

\* C11, amended: while main cleans up or re-scans for the sweep, no worker is
\* running a batch (every main-pass batch has finished or the pool has been
\* shut down and joined), so no sweep batch runs beside a main-pass batch; and
\* the re-scan comes after the empty-directory cleanup whenever the main pass
\* had files, and directly after the first scan when it found none.
C11_SweepAfterMainPass ==
  /\ [][(mpc' = "decide" /\ mpc # "decide") =>
          \/ mpc = "cleanup"
          \/ mpc = "scan" /\ total_files' = 0]_vars
  /\ [](mpc \in {"cleanup", "decide"} =>
          /\ \A w \in Workers : wpc[w] = "idle"
          /\ pool # "open")

\* C11 witness: a worker runs a sweep batch in a run whose main pass placed a
\* file.
C11_Witness ==
  /\ sweep
  /\ pool = "open"
  /\ \E w \in Workers : wpc[w] = "copy"
  /\ \E c \in copies : ~c.sweep /\ c.run = run

\* C12: every per-file failure recorded during the main pass of a run (other
\* than unsupported-type skips) is in the error list of that run's final
\* summary (in a run that no signal interrupts).
C12_SummaryKeepsMainPassErrors ==
  (report.kind = "summary" /\ signals = 0) =>
    \A h \in handled :
      (h.run = run /\ ~h.sweep /\ ~h.ok /\ h.kind # "unsupported") =>
        Rec(h.ok, h.kind, h.file) \in report.errors

\* no stage of the resolver gives a date for the call's file and metadata
NoSourceYieldsADate ==
  /\ FilenameStage(call.file_path.name, filename_patterns).kind # "date"
  /\ MetadataStage(call.metadata, exif_sections).kind # "date"
  /\ TdrcStage(call.metadata).kind # "date"
  /\ FilenameDateStage(call.file_path.name, filename_date_patterns).kind # "date"

\* C13: for every metadata mapping and every name of an existing file,
\* extract_date_from_metadata returns a timestamp and raises nothing; when no
\* filename pattern and no metadata field gives a date, the timestamp is the
\* file's modification time.
C13_DateResolverTotal ==
  (Returned("extract_date_from_metadata") /\ call.file_path.exists) =>
    /\ ret.kind = "date"
    /\ NoSourceYieldsADate => (ret.aware /\ ret.date = call.file_path.mtime)

\* C13 witness: the call returned the modification time although the file
\* name matched the first pattern (with an impossible month) and a date field
\* of the metadata was present (and unparsable).
C13_Witness ==
  /\ Returned("extract_date_from_metadata")
  /\ ret.kind = "date"
  /\ ret.aware
  /\ ret.date = call.file_path.mtime
  /\ Search(call.file_path.name, filename_patterns[1]) # 0
  /\ <<"", "FileModifyDate">> \in DOMAIN call.metadata

\* the position of the last separator of a path
LastSlash(path) == CHOOSE i \in 1..Len(path) :
  path[i] = "/" /\ \A j \in (i + 1)..Len(path) : path[j] # "/"

\* the timestamp the resolver gives for a file
ResolvedDate(file) ==
  extract_date_from_metadata(file.metadata,
    [name |-> file.name, exists |-> TRUE, mtime |-> file.mtime]).date

\* C14: for every file process_file places, in normal and in sweep mode, the
\* directory the file lies in is named after the year of the resolved
\* timestamp, the timestamp the file name starts with.
C14_YearDirectoryMatchesName ==
  (Returned("process_file") /\ ret.result.ok) =>
    LET path == ret.result.path
        k == LastSlash(path)
        date == ResolvedDate(ret.file)
    IN  /\ path[k - 1] = ToString(date.year)
        /\ path[k + 1] = DateStr(date)

\* C14 witness: files of two different years have been placed, one of them in
\* sweep mode under a resolved (numbered) path.
C14_Witness ==
  /\ Returned("process_file")
  /\ call.is_error_sweep
  /\ ret.result.ok
  /\ ret.result.path # ret.result.target_path
  /\ \E i \in 1..Len(call.done) :
       /\ call.done[i].result.ok
       /\ ResolvedDate(call.done[i].file).year # ResolvedDate(ret.file).year

RECURSIVE Flatten(_)
\* the concatenation of the batches, in order
Flatten(bs) == IF bs = <<>> THEN <<>> ELSE Head(bs) \o Flatten(Tail(bs))

\* C15: batch_files, called with min(batch_size, number of files) batches on
\* a non-empty list, returns that many non-empty batches whose concatenation
\* in order is the list; two batch sizes differ by at most one and the larger
\* batches come first.
C15_BatchPartition ==
  Returned("batch_files") =>
    LET b == ret.batches
    IN  /\ Len(b) = MinOf(call.batch_size, Len(call.files))
        /\ \A i \in 1..Len(b) : b[i] # <<>>
        /\ Flatten(b) = call.files
        /\ \A i, j \in 1..Len(b) : Len(b[i]) - Len(b[j]) <= 1
        /\ \A i, j \in 1..Len(b) : i < j => Len(b[i]) >= Len(b[j])

\* C15 witness: a list was split into batches of two different sizes, with
\* more than one batch of each size.
C15_Witness ==
  /\ Returned("batch_files")
  /\ \E i, j \in 2..(Len(ret.batches) - 1) :
       /\ Len(ret.batches[i]) = Len(ret.batches[j]) + 1
       /\ Len(ret.batches[j]) >= 2

\* path with every token `old` replaced by `new`
Subst(path, old, new) == [i \in 1..Len(path) |-> IF path[i] = old THEN new ELSE path[i]]

\* the tokens of a path after its last separator
NameOf(path) == SubSeq(path, LastSlash(path) + 1, Len(path))

\* process_file found its proposed path taken and resolve_collision gave a path
Collided ==
  /\ Returned("process_file")
  /\ ret.result.target_path \in ret.before
  /\ ret.result.path # <<>>

\* C16: when the proposed path exists, the chosen path does not exist and
\* carries the smallest counter N >= 2 whose candidate does not exist; with
\* 2024-01-01_10-00-00.jpg present (under a plain destination root), a second
\* proposal of that name is placed as 2024-01-01_10-00-00_2.jpg and a third
\* as 2024-01-01_10-00-00_3.jpg.
C16_CollisionNumbering ==
  Collided =>
    LET r == ret.result
        plain == <<"2024-01-01_10-00-00", ".jpg">>
        earlier == Cardinality({i \in 1..(Len(call.done) - 1) :
                                 call.done[i].result.target_path = r.target_path})
    IN  /\ r.path \notin ret.before
        /\ \E N \in 2..(MaxPlaced + 1) :
             /\ Cardinality({i \in 1..Len(r.path) : r.path[i] = CounterTok(N)}) = 1
             /\ \A M \in 2..(N - 1) :
                  Subst(r.path, CounterTok(N), CounterTok(M)) \in ret.before
        /\ (call.destination_root = <<"dst">> /\ r.new_filename = plain) =>
             /\ r.ok
             /\ DirOf(r.path) = r.target_directory
             /\ NameOf(r.path) = <<"2024-01-01_10-00-00", CounterTok(earlier + 1), ".jpg">>

\* C16 witness: the third proposal of 2024-01-01_10-00-00.jpg was placed as
\* 2024-01-01_10-00-00_3.jpg.
C16_Witness ==
  /\ Collided
  /\ ret.result.ok
  /\ Len(call.done) = 3
  /\ NameOf(ret.result.path) = <<"2024-01-01_10-00-00", "_3", ".jpg">>

\* The tokens of a file name before its extension token.
Stem(name) == IF name # <<>> /\ IsExtToken(name[Len(name)])
                THEN SubSeq(name, 1, Len(name) - 1) ELSE name

\* The extension token of a file name (empty when it has none).
ExtOf(name) == IF name # <<>> /\ IsExtToken(name[Len(name)])
                 THEN <<name[Len(name)]>> ELSE <<>>

\* C17: when the proposed name carries a -ss<digits> marker, the resolved
\* name is <timestamp>_N-ss<digits><ext>, the marker unchanged and the counter
\* immediately before it; when it carries no marker, the resolved name is
\* <timestamp>_N<ext>, the counter directly before the extension. In both
\* cases the rest of the path is the proposed one.
C17_CounterPlacement ==
  Collided =>
    LET r == ret.result
        name == r.new_filename
        stem == Stem(name)
    IN  \E N \in 2..(MaxPlaced + 1) :
          /\ DirOf(r.path) = r.target_directory
          /\ NameOf(r.path) =
               IF Len(stem) = 3 /\ stem[2] = "-ss"
                 THEN <<stem[1], CounterTok(N), "-ss", stem[3]>> \o ExtOf(name)
                 ELSE stem \o <<CounterTok(N)>> \o ExtOf(name)

\* the value of a field, stripped, contains a known-corrupt pattern
Suspicious(raw) == \E p \in suspicious_patterns : Contains(Strip(raw), p)

\* positions of the scan order whose field is present (and not empty) in md
PresentAt(md) == {i \in 1..Len(SubsecKeys) :
                    SubsecKeys[i] \in DOMAIN md /\ md[SubsecKeys[i]] # <<>>}

\* C18: a present field whose value contains a known-corrupt pattern (such
\* as "000964") is never the field the result is taken from; the scan goes on
\* to the remaining fields, and the result is the value of the first field
\* that is usable; when some field is corrupt and no field is usable the
\* result is the empty string with needs_cleaning = TRUE.
C18_SubsecondSanitization ==
  Returned("extract_subseconds_enhanced") =>
    LET md == call.metadata
        sus == {i \in PresentAt(md) : Suspicious(md[SubsecKeys[i]])}
        acc == {i \in PresentAt(md) : SubsecOfValue(md[SubsecKeys[i]]).kind = "accept"}
    IN  /\ sus \cap acc = {}
        /\ acc # {} => ret.subseconds = SubsecOfValue(md[SubsecKeys[Min(acc)]]).val
        /\ (sus # {} /\ acc = {}) => ret.subseconds = <<>> /\ ret.needs_cleaning
        /\ (md = (SubsecKeys[1] :> <<"0","0","0","9","6","4">>)) =>
              ret.subseconds = <<>> /\ ret.needs_cleaning

\* C18 witness: ExifIFD.SubSecTimeOriginal is "000964" and the result is the
\* 500000 of a later field.
C18_Witness ==
  /\ Returned("extract_subseconds_enhanced")
  /\ SubsecKeys[1] \in DOMAIN call.metadata
  /\ call.metadata[SubsecKeys[1]] = <<"0","0","0","9","6","4">>
  /\ ret.subseconds = <<"5","0","0","0","0","0">>

\* C19: IMG_0001.JPG with ExifIFD.DateTimeOriginal "2024:01:01 10:00:00" and
\* ExifIFD.SubSecTimeOriginal "500000", processed in normal mode into an empty
\* destination, is named 2024-01-01_10-00-00-ss500000.jpg and placed at
\* <root>/Photos/2024/2024-01-01_10-00-00-ss500000.jpg.
C19_CanonicalNameScenario ==
  ( /\ Returned("process_file")
    /\ ret.file.name = <<"I","M","G","_","0","0","0","1",".","J","P","G">>
    /\ ~call.is_error_sweep
    /\ ret.before = {call.destination_root} ) =>
    LET name == <<"2024-01-01_10-00-00", "-ss", "500000", ".jpg">>
    IN  /\ ret.result.ok
        /\ ret.result.new_filename = name
        /\ ret.result.path =
             call.destination_root \o <<"/", "Photos", "/", "2024", "/">> \o name

\* the names of the category directories
CategoryFolders == {"Photos", "Videos", "Audio", "Documents", "Art", "Other"}

\* C20: for every category, date, size and mode, the destination directory
\* is <destination_root>/<Category>/<Year>, then small_files when the file is
\* a small one, then Error when the file is placed by the sweep: category and
\* year come directly under the destination root and the tier segments
\* follow them.
C20_DestinationLayout ==
  (Returned("process_file") /\ ret.result.target_directory # <<>>) =>
    LET size == ret.file.size
        small == size > 0 /\ size <= SmallFileKiB * KiB
        tiers == (IF small THEN <<"/", "small_files">> ELSE <<>>)
                 \o (IF call.is_error_sweep THEN <<"/", "Error">> ELSE <<>>)
        year == ToString(ResolvedDate(ret.file).year)
    IN  \E Category \in CategoryFolders :
          ret.result.target_directory =
            call.destination_root \o <<"/", Category, "/", year>> \o tiers

\* C21: when the tag write on the destination fails, no exception escapes
\* and the outcome of the file is a success, the copy stays at its
\* destination, and the failure is recorded: printed by the process that ran
\* the write, or visible in the file's outcome record.
C21_MetadataWriteFailureRecorded ==
  \A m \in metafail : \A h \in handled :
    (h.file = m.file /\ h.run = m.run /\ h.sweep = m.sweep) =>
      /\ h.ok
      /\ \E c \in copies : c.file = m.file /\ c.run = m.run /\ c.sweep = m.sweep
                            /\ c.path \in DOMAIN dst
      /\ \/ \E w \in ActiveWorkers : PrintsMetadataError(w)
         \/ h.kind # "processed"

\* the text of a file name or of a field value
Text(cs) == JoinChars(cs)

\* the date a call of the resolver returned, as YYYY-MM-DD_HH-MM-SS
ReturnedDateStr == DateStr(ret.date)

\* C22: the timestamp returned is that of the first step that yields one, in
\* the order strict file name pattern, metadata date fields, TDRC, loose file
\* name digits, modification time: a valid YYYY-MM-DD_HH-MM-SS or
\* YYYYMMDD_HHMMSS in the name wins over every metadata date, the metadata
\* win over TDRC and over loose digits of the name, TDRC wins over loose
\* digits, and the modification time is used only when nothing else yields
\* a date.
C22_DateCascadeOrder ==
  (Returned("extract_date_from_metadata") /\ call.file_path.exists) =>
    LET name == Text(call.file_path.name)
        md == call.metadata
        strict == name \in {"2024-01-01_10-00-00.jpg", "20240101_100000.mp4"}
        nostrict == name \in {"19991231.jpg", "scan_240101.png", "100530.jpg", "x.jpg",
                              "IMG_0001.JPG"}
        s1 == FilenameStage(call.file_path.name, filename_patterns)
        s2 == MetadataStage(md, exif_sections)
        s3 == TdrcStage(md)
        s4 == FilenameDateStage(call.file_path.name, filename_date_patterns)
        steps == <<s1, s2, s3, s4, get_fallback_date(call.file_path)>>
        first == Min({i \in 1..5 : steps[i].kind # "none"})
    IN  /\ ret = steps[first]
        /\ ret.kind = "date"
        /\ strict => ReturnedDateStr = "2024-01-01_10-00-00"
        /\ (nostrict /\ <<"IFD0", "CreateDate">> \in DOMAIN md) =>
             ReturnedDateStr = "2023-06-15_08-30-00"
        /\ (nostrict /\ md = (<<"", "TDRC">> :> <<"2","0","2","4">>)) =>
             ReturnedDateStr = "2024-01-01_00-00-00"
        /\ (name = "100530.jpg" /\ md = <<>>) => ReturnedDateStr = "2010-05-30_10-05-30"
        /\ (name = "x.jpg" /\ md = <<>>) => ret.date = call.file_path.mtime

\* C22 witness: the name carries a valid strict date and the metadata a
\* valid date of another day; the date of the name is returned.
C22_Witness ==
  /\ Returned("extract_date_from_metadata")
  /\ Text(call.file_path.name) = "20240101_100000.mp4"
  /\ <<"IFD0", "CreateDate">> \in DOMAIN call.metadata
  /\ MetadataStage(call.metadata, exif_sections).kind = "date"
  /\ ReturnedDateStr = "2024-01-01_10-00-00"

\* the position of the marker in a file name, 0 if it has none
MarkerAt(name) ==
  IF \E i \in 1..Len(name) : name[i] = "-ss"
    THEN CHOOSE i \in 1..Len(name) : name[i] = "-ss" ELSE 0

\* C23: for every file placed, when the resolver returned a non-empty value
\* with needs_cleaning = FALSE the name carries -ss<that value>, the value
\* written to the sub-second tags of the destination; when the resolver
\* returned the empty string the name has no -ss marker.
C23_MarkerEqualsTags ==
  (Returned("process_file") /\ ret.result.ok) =>
    LET r == ret.result
        k == MarkerAt(r.new_filename)
    IN  /\ (r.subseconds # <<>> /\ ~r.needs_cleaning) =>
             /\ k # 0
             /\ r.new_filename[k + 1] = JoinChars(r.subseconds)
             /\ r.tags = r.new_filename[k + 1]
        /\ r.subseconds = <<>> => k = 0

\* C24: in normal and in sweep mode, for every size from 0 upward, the
\* destination directory has the small_files segment if and only if the size
\* of the file is at most 200 * 1024 bytes.
C24_SmallFileBoundary ==
  (Returned("process_file") /\ ret.result.target_directory # <<>>) =>
    LET td == ret.result.target_directory
    IN  (\E i \in 1..Len(td) : td[i] = "small_files")
          <=> (ret.file.size <= SmallFileKiB * KiB)

\* the largest number of files in one batch
FilesPerBatch(b) ==
  LET lens == {Len(b[i]) : i \in 1..Len(b)}
  IN  CHOOSE x \in lens : \A y \in lens : x >= y

\* C26: for a fixed file list and worker count the number of files per batch
\* depends on the memory tier: a higher tier never gives fewer files per
\* batch, and for some file list and worker count it gives more.
C26_BatchSizeByMemory ==
  Returned("batch_files") =>
    /\ \A m \in MemoryGB : m > call.total_memory_gb =>
         FilesPerBatch(ScheduledBatches(Len(call.files), call.physical_cores, m))
           >= FilesPerBatch(ret.batches)
    /\ \E n \in 1..MaxFiles, c \in 1..MaxCores : \E m1, m2 \in MemoryGB :
         /\ m1 < m2
         /\ FilesPerBatch(ScheduledBatches(n, c, m2))
              > FilesPerBatch(ScheduledBatches(n, c, m1))

\* C27: for every input mapping, a non-empty sub-second string returned
\* contains none of the patterns 9642, 9643, 9644, 9645, 0964, also after the
\* leading zeros were stripped and the value padded to six digits.
C27_OutputNeverSentinel ==
  (Returned("extract_subseconds_enhanced") /\ ret.subseconds # <<>>) =>
    \A p \in suspicious_patterns : ~Contains(ret.subseconds, p)

\* C28: for every target path that exists, also one whose directory part
\* contains -ss, resolve_collision returns without raising, and the path it
\* returns lies in the directory of the target, has the extension of the
\* target and does not exist.
C28_ResolveCollisionStaysInPlace ==
  ( /\ Returned("process_file")
    /\ ret.result.target_path # <<>>
    /\ ret.result.target_path \in ret.before ) =>
    LET r == ret.result
        resolved == resolve_collision(r.target_path, ret.before)
    IN  /\ resolved.ok
        /\ r.path = resolved.path
        /\ DirOf(resolved.path) = DirOf(r.target_path)
        /\ ExtOf(NameOf(resolved.path)) = ExtOf(NameOf(r.target_path))
        /\ resolved.path \notin ret.before

\* main calls perform_final_sweep
SweepStarts == mpc = "decide" /\ mpc' \in {"collect", "summary"}

\* the stop flag of process p goes back to FALSE
Cleared(p) == EXIT_FLAG[p] /\ ~EXIT_FLAG'[p]

MaxGap == 1
\* source files of one run
MaxVideoFiles == 3

None == [kind |-> "none"]

\* (\d{4})[-_](\d{2})[-_](\d{2})[_\s]*(\d{2})[-_](\d{2})[-_](\d{2})
FILENAME_DATE_PATTERN ==
  LET sep == {"-", "_"}
      gaps == UNION {[1..n -> {"_", " "}] : n \in 0..MaxGap}
  IN  {<<"d", "d", "d", "d", a, "d", "d", b, "d", "d">> \o g
         \o <<"d", "d", c, "d", "d", e, "d", "d">> :
         <<a, b, c, e, g>> \in sep \X sep \X sep \X sep \X gaps}

\* datetime(1989, 12, 31): midnight at the start of that day
DATE_CUTOFF ==
  [year |-> 1989, month |-> 12, day |-> 31, hour |-> 0, minute |-> 0, second |-> 0]

\* a > b on datetimes
After(a, b) ==
  LET ka == <<a.year, a.month, a.day, a.hour, a.minute, a.second>>
      kb == <<b.year, b.month, b.day, b.hour, b.minute, b.second>>
  IN  \E i \in 1..6 : ka[i] > kb[i] /\ \A j \in 1..(i - 1) : ka[j] = kb[j]

\* FILENAME_DATE_PATTERN.search(file_name), then datetime(*map(int, groups));
\* None when nothing matches or datetime raises ValueError
extract_date_from_filename(file_name) ==
  LET hits == {h \in (1..Len(file_name)) \X FILENAME_DATE_PATTERN :
                 ShapeAt(file_name, h[1], h[2])}
  IN  IF hits = {} THEN None
      ELSE LET h == CHOOSE x \in hits : \A y \in hits : x[1] <= y[1]
               r == ParseDateTime14(MatchDigits(file_name, h[1], h[2]))
           IN  IF r.kind = "date" THEN r ELSE None

\* min(dates) of the file name's date (taken as it is) and of the date fields
\* that parse and are later than DATE_CUTOFF; None when there is none
get_oldest_date(tags, filename_date) ==
  LET fields == <<"CreateDate", "DateTimeOriginal", "ModifyDate",
                  "MediaCreateDate", "TrackCreateDate", "FileModifyDate">>
      Parsed(f) == Strptime(tags[f], date_formats[1])
      kept == {i \in 1..Len(fields) :
                 /\ fields[i] \in DOMAIN tags
                 /\ Parsed(fields[i]).kind = "date"
                 /\ After(Parsed(fields[i]).date, DATE_CUTOFF)}
      dates == (IF filename_date.kind = "date" THEN {filename_date.date} ELSE {})
                 \cup {Parsed(fields[i]).date : i \in kept}
  IN  IF dates = {} THEN None
      ELSE [kind |-> "date",
            date |-> CHOOSE d \in dates : \A o \in dates : ~After(d, o)]

\* the first run of at most six digits of the first sub-second field present
\* that has one, zero-filled to six; '' when there is none
get_subseconds(tags) ==
  LET fields == <<"SubSecTime", "SubSecTimeOriginal", "SubSecTimeDigitized">>
      Run(s) ==
        LET i == Min({k \in 1..Len(s) : s[k] \in Digits})
            n == CHOOSE m \in 1..6 :
                   /\ IsDigit(SubSeq(s, i, i + m - 1))
                   /\ (m = 6 \/ i + m > Len(s) \/ s[i + m] \notin Digits)
        IN  SubSeq(s, i, i + n - 1)
      has == {i \in 1..Len(fields) :
                /\ fields[i] \in DOMAIN tags
                /\ \E k \in 1..Len(tags[fields[i]]) : tags[fields[i]][k] \in Digits}
  IN  IF has = {} THEN <<>> ELSE ZFill(Run(tags[fields[Min(has)]]), 6)

NoTags == [f \in {} |-> <<>>]

\* the files os.walk can find: folder, stem and extension of the path, and
\* the tags exiftool reports (none when it fails)
VideoFiles ==
  << [dir |-> "a", stem |-> <<"c","l","i","p">>, ext |-> ".mp4",
      tags |-> [f \in {"CreateDate"} |->
                  <<"2","0","2","0",":","0","5",":","0","5"," ",
                    "1","0",":","0","0",":","0","0">>]],
     [dir |-> "b", stem |-> <<"c","l","i","p">>, ext |-> ".mp4",
      tags |-> [f \in {"CreateDate", "ModifyDate"} |->
                  IF f = "CreateDate"
                    THEN <<"2","0","2","0",":","0","5",":","0","5"," ",
                           "1","0",":","0","0",":","0","0">>
                    ELSE <<"2","0","2","1",":","0","1",":","0","1"," ",
                           "0","0",":","0","0",":","0","0">>]],
     [dir |-> "a", stem |-> <<"o","l","d">>, ext |-> ".mp4", tags |-> NoTags],
     [dir |-> "b", stem |-> <<"o","l","d">>, ext |-> ".mp4",
      tags |-> [f \in {"CreateDate"} |->
                  <<"1","9","8","5",":","0","6",":","1","5"," ",
                    "1","0",":","0","0",":","0","0">>]],
     [dir |-> "a",
      stem |-> <<"1","9","8","5","-","0","6","-","1","5","_",
                 "1","0","-","0","0","-","0","0">>,
      ext |-> ".mp4", tags |-> NoTags],
     [dir |-> "a", stem |-> <<"t","a","p","e">>, ext |-> ".mov",
      tags |-> [f \in {"DateTimeOriginal", "SubSecTime"} |->
                  IF f = "SubSecTime" THEN <<"1","2">>
                  ELSE <<"1","9","8","9",":","1","2",":","3","1"," ",
                         "1","0",":","0","0",":","0","0">>]] >>

\* NUM_THREADS = max(1, cpu_count() - 1) on a machine of three cores
VideoWorkers == {"p1", "p2"}

Idle == [pc |-> "idle", file |-> 0, new_path |-> <<>>, oldest_date |-> None]

\* main() is about to walk a source tree: file_paths in the order of the walk
InitVideo ==
  /\ InitAtRest
  /\ \E n \in 1..MaxVideoFiles :
       \E file_paths \in [1..n -> 1..Len(VideoFiles)] :
         /\ \A i, j \in 1..n : i # j => file_paths[i] # file_paths[j]
         /\ call = [fn |-> "main", file_paths |-> file_paths]

VideoRest ==
  <<fsVars, EXIT_FLAG, mainVars, poolVars, outq, workerVars, shared_counter,
    faults, signals, histVars, handled, stop_ok, root, cores, pre, call>>

\* Pool(NUM_THREADS) and pool.map(move_and_rename_file, args)
VideoStartPool ==
  /\ call.fn = "main"
  /\ ret.kind = "pending"
  /\ ret' = [kind |-> "pool",
             queue |-> call.file_paths,
             source |-> {call.file_paths[i] : i \in 1..Len(call.file_paths)},
             placed |-> {},
             replaced |-> {},
             errors |-> {},
             w |-> [p \in VideoWorkers |-> Idle]]
  /\ UNCHANGED VideoRest

\* os.path.exists(path)
VideoExists(placed, path) == \E x \in placed : x.path = path

\* shutil.move(file_path, path): the file at path, if any, is replaced
MovedTo(r, id, path) ==
  [r EXCEPT !.source = @ \ {id},
            !.placed = {x \in @ : x.path # path} \cup {[path |-> path, content |-> id]},
            !.replaced = @ \cup {x.content : x \in {y \in r.placed : y.path = path}}]

\* a worker takes the next file and runs move_and_rename_file up to the end
\* of its while loop
move_and_rename_file(p) ==
  /\ call.fn = "main"
  /\ ret.kind = "pool"
  /\ ret.w[p].pc = "idle"
  /\ ret.queue # <<>>
  /\ LET id == Head(ret.queue)
         file == VideoFiles[id]
         oldest_date == get_oldest_date(file.tags, extract_date_from_filename(file.stem))
         subsec_str == get_subseconds(file.tags)
         year_folder == ToString(oldest_date.date.year)
         base_name == DateStr(oldest_date.date)
         extension == Lower(file.ext)
         first == base_name
                    \o (IF subsec_str # <<>> THEN "-" \o JoinChars(subsec_str) ELSE "")
                    \o extension
         Numbered(counter) == base_name \o "-" \o ToString(counter) \o extension
         counter == Min({c \in 1..(Cardinality(ret.placed) + 1) :
                           ~VideoExists(ret.placed, <<year_folder, Numbered(c)>>)})
         new_path == IF VideoExists(ret.placed, <<year_folder, first>>)
                       THEN <<year_folder, Numbered(counter)>>
                       ELSE <<year_folder, first>>
     IN  ret' = [ret EXCEPT
                   !.queue = Tail(@),
                   !.w[p] = IF oldest_date.kind = "date"
                              THEN [pc |-> "move", file |-> id, new_path |-> new_path,
                                    oldest_date |-> oldest_date]
                              ELSE [pc |-> "except", file |-> id, new_path |-> <<>>,
                                    oldest_date |-> None]]
  /\ UNCHANGED VideoRest

\* shutil.move(file_path, new_path) and update_metadata(new_path); when
\* exiftool fails the handler calls move_to_exceptions(file_path), whose
\* shutil.move finds no file at file_path any more and is logged
ShutilMove(p) ==
  /\ call.fn = "main"
  /\ ret.kind = "pool"
  /\ ret.w[p].pc = "move"
  /\ \E updated \in BOOLEAN :
       ret' = [MovedTo(ret, ret.w[p].file, ret.w[p].new_path) EXCEPT
                 !.errors = IF updated THEN @ ELSE @ \cup {ret.w[p].file},
                 !.w[p] = Idle]
  /\ UNCHANGED VideoRest

\* dest_path = exceptions_dir/basename(file_path); shutil.move(file_path, dest_path)
move_to_exceptions(p) ==
  /\ call.fn = "main"
  /\ ret.kind = "pool"
  /\ ret.w[p].pc = "except"
  /\ LET file == VideoFiles[ret.w[p].file]
         dest_path == <<"exceptions", JoinChars(file.stem) \o file.ext>>
     IN  ret' = [MovedTo(ret, ret.w[p].file, dest_path) EXCEPT !.w[p] = Idle]
  /\ UNCHANGED VideoRest

\* pool.map returns: every file was handed out and every worker is back
VideoComplete ==
  /\ call.fn = "main"
  /\ ret.kind = "pool"
  /\ ret.queue = <<>>
  /\ \A p \in VideoWorkers : ret.w[p].pc = "idle"
  /\ ret' = [ret EXCEPT !.kind = "returned"]
  /\ UNCHANGED VideoRest

NextVideo ==
  \/ VideoStartPool
  \/ \E p \in VideoWorkers : move_and_rename_file(p)
  \/ \E p \in VideoWorkers : ShutilMove(p)
  \/ \E p \in VideoWorkers : move_to_exceptions(p)
  \/ VideoComplete

SpecVideo == InitVideo /\ [][NextVideo]_vars

\* ret holds the state of a run of the video mover
VideoRunning == call.fn = "main" /\ ret.kind \in {"pool", "returned"}

\* the dates a file offers: that of its name and those of its date fields
DateCandidates(file) ==
  LET fields == {"CreateDate", "DateTimeOriginal", "ModifyDate",
                 "MediaCreateDate", "TrackCreateDate", "FileModifyDate"}
      fd == extract_date_from_filename(file.stem)
  IN  (IF fd.kind = "date" THEN {fd.date} ELSE {})
        \cup {Strptime(file.tags[f], date_formats[1]).date :
                f \in {g \in fields \cap DOMAIN file.tags :
                         Strptime(file.tags[g], date_formats[1]).kind = "date"}}

\* at or before the end of 1989
AtOrBeforeCutoff(date) == date.year <= 1989

\* C25: get_oldest_date never returns a date at or before the end of 1989,
\* and a file all of whose date candidates are at or before it is never in a
\* year folder: it is moved to the exceptions directory.
C25_DateCutoff ==
  VideoRunning =>
    /\ \A p \in VideoWorkers :
         ret.w[p].oldest_date.kind = "date" =>
           ~AtOrBeforeCutoff(ret.w[p].oldest_date.date)
    /\ \A x \in ret.placed :
         (\A d \in DateCandidates(VideoFiles[x.content]) : AtOrBeforeCutoff(d)) =>
           x.path[1] = "exceptions"

\* where the content of input file id is
PlacesOf(id) ==
  (IF id \in ret.source THEN {<<"source", id>>} ELSE {})
    \cup {x.path : x \in {y \in ret.placed : y.content = id}}

\* C30: the content of every input file is in exactly one place among the
\* source tree, a year folder and the exceptions directory, and no move has
\* replaced a file that was at its target.
C30_NoFileLost ==
  VideoRunning =>
    /\ ret.replaced = {}
    /\ \A i \in 1..Len(call.file_paths) :
         Cardinality(PlacesOf(call.file_paths[i])) = 1
====
